---- MODULE Spec2Model ----
(***************************************************************************)
(* The task timer of the Invoice Ninja tool server: the time_log a task    *)
(* carries in the upstream store, the three tools that mutate it           *)
(* (start_task, stop_task, log_time) and the tools that derive elapsed     *)
(* time and running state from it (get_tasks, get_task_details,            *)
(* get_project_summary, get_billable_hours, get_business_dashboard).       *)
(*                                                                         *)
(* A time_log is stored as JSON text.  The text is modelled as a sequence  *)
(* of tokens, json_dumps writes it and json_loads parses it, so that what  *)
(* a tool reads is what another tool wrote only as far as the two agree.   *)
(* Seconds are integers; hours = seconds / 3600 are carried as seconds.    *)
(***************************************************************************)
EXTENDS Integers, Sequences, FiniteSets, TLC

\* ---------------------------------------------------------------- bounds

\* The clock (int(time.time())) runs over 1..MaxClock.
MaxClock == 2
\* The store holds at most MaxSessions sessions, over all tasks.
MaxSessions == 3
\* Stored logs drawn at random hold at most AnyMaxLen sessions ...
AnyMaxLen == 2
\* ... of timestamps 1..AnyMaxTime.
AnyMaxTime == 2
\* The aging report is drawn over at most MaxInvoices invoices.
MaxInvoices == 2
\* The truncating reports are drawn over lists of at most MaxItems items.
MaxItems == 16
\* No invocation issues more than MaxRequests requests.
MaxRequests == 6

\* Hours are binary fractions n / 2^12: float arithmetic on them is exact.
HoursDen == 2 ^ 12

TaskIds == {"t1", "t2"}
\* The order in which the upstream lists the tasks.
TaskOrder == [i \in 1 .. MaxItems |-> "t" \o ToString(i)]

\* ------------------------------------------------------------- JSON text

Tok(k, n) == [tok |-> k, n |-> n]
LB == Tok("[", 0)
RB == Tok("]", 0)
COMMA == Tok(",", 0)
Num(n) == Tok("num", n)
\* Any character that starts no JSON value.
JUNK == Tok("junk", 0)

\* The first integer of an entry, 0 for the empty entry.
EntryStart_of(entry) == IF Len(entry) > 0 THEN entry[1] ELSE 0

RECURSIVE DumpInts(_, _)
DumpInts(entry, i) ==
    IF i > Len(entry) THEN <<>>
    ELSE (IF i > 1 THEN <<COMMA>> ELSE <<>>) \o <<Num(entry[i])>> \o DumpInts(entry, i + 1)

RECURSIVE DumpEntries(_, _)
DumpEntries(logs, i) ==
    IF i > Len(logs) THEN <<>>
    ELSE (IF i > 1 THEN <<COMMA>> ELSE <<>>)
         \o <<LB>> \o DumpInts(logs[i], 1) \o <<RB>>
         \o DumpEntries(logs, i + 1)

\* A variant of json_dumps that writes the integers of all entries into one
\* array.
json_dumps_flat(logs) ==
    <<LB>> \o DumpInts([i \in 1 .. Len(logs) |-> EntryStart_of(logs[i])], 1) \o <<RB>>

\* json.dumps of a list of lists of integers.
json_dumps(logs) == <<LB>> \o DumpEntries(logs, 1) \o <<RB>>

ParseFail == [ok |-> FALSE, val |-> <<>>, next |-> 0]

\* The integers of one inner array, from the token after its "[".
RECURSIVE ParseInts(_, _, _, _)
ParseInts(text, i, acc, afterComma) ==
    IF i > Len(text) THEN ParseFail
    ELSE IF text[i] = RB
         THEN IF afterComma THEN ParseFail
              ELSE [ok |-> TRUE, val |-> acc, next |-> i + 1]
    ELSE IF text[i].tok = "num"
         THEN IF i + 1 <= Len(text) /\ text[i + 1] = COMMA
              THEN ParseInts(text, i + 2, Append(acc, text[i].n), TRUE)
              ELSE IF i + 1 <= Len(text) /\ text[i + 1] = RB
              THEN [ok |-> TRUE, val |-> Append(acc, text[i].n), next |-> i + 2]
              ELSE ParseFail
    ELSE ParseFail

\* The inner arrays of the outer array, from the token after its "[".
RECURSIVE ParseEntries(_, _, _, _)
ParseEntries(text, i, acc, afterComma) ==
    IF i > Len(text) THEN ParseFail
    ELSE IF text[i] = RB
         THEN IF afterComma THEN ParseFail
              ELSE [ok |-> TRUE, val |-> acc, next |-> i + 1]
    ELSE IF text[i] = LB
         THEN LET e == ParseInts(text, i + 1, <<>>, FALSE) IN
              IF ~e.ok THEN ParseFail
              ELSE IF e.next <= Len(text) /\ text[e.next] = COMMA
              THEN ParseEntries(text, e.next + 1, Append(acc, e.val), TRUE)
              ELSE IF e.next <= Len(text) /\ text[e.next] = RB
              THEN [ok |-> TRUE, val |-> Append(acc, e.val), next |-> e.next + 1]
              ELSE ParseFail
    ELSE ParseFail

\* json.loads on a text that is either an array of arrays of integers or
\* no JSON at all: ok = FALSE stands for the JSONDecodeError it raises.
json_loads(text) ==
    IF Len(text) >= 1 /\ text[1] = LB
    THEN LET r == ParseEntries(text, 2, <<>>, FALSE) IN
         IF r.ok /\ r.next = Len(text) + 1
         THEN [ok |-> TRUE, val |-> r.val]
         ELSE [ok |-> FALSE, val |-> <<>>]
    ELSE [ok |-> FALSE, val |-> <<>>]

\* The text create_task posts: the literal "[]".
EmptyLogText == <<LB, RB>>

\* ------------------------------------------------- timers derived from a log

\* Python's truth value of an integer.
Truthy(n) == n # 0

Last(logs) == logs[Len(logs)]

\* start, end of one entry as get_tasks reads them: a missing or zero end is 0.
EntryStart(log) == IF Len(log) > 0 THEN log[1] ELSE 0
EntryEnd(log) == IF Len(log) > 1 /\ Truthy(log[2]) THEN log[2] ELSE 0

\* A variant of GetTasksLoop that leaves an open entry's end at 0.
RECURSIVE GetTasksLoop_noend(_, _, _, _)
GetTasksLoop_noend(logs, i, now, acc) ==
    IF i > Len(logs) THEN acc
    ELSE LET start == EntryStart(logs[i])
             end == EntryEnd(logs[i])
             open == end = 0 /\ start > 0
             add == IF Truthy(start) /\ Truthy(end) THEN end - start ELSE 0
         IN GetTasksLoop_noend(logs, i + 1, now,
                [seconds |-> acc.seconds + add, running |-> acc.running \/ open])

\* The loop of get_tasks over the entries i.. of logs.
RECURSIVE GetTasksLoop(_, _, _, _)
GetTasksLoop(logs, i, now, acc) ==
    IF i > Len(logs) THEN acc
    ELSE LET start == EntryStart(logs[i])
             end0 == EntryEnd(logs[i])
             open == end0 = 0 /\ start > 0
             end == IF open THEN now ELSE end0
             add == IF Truthy(start) /\ Truthy(end) THEN end - start ELSE 0
         IN GetTasksLoop(logs, i + 1, now,
                [seconds |-> acc.seconds + add, running |-> acc.running \/ open])

TimerZero == [seconds |-> 0, running |-> FALSE]

\* A variant of GetTasksTimer whose except branch resets the hours only and
\* reports the task with a set is_running.
GetTasksTimer_stale(text, now) ==
    LET p == json_loads(text) IN
    IF ~p.ok THEN [seconds |-> 0, running |-> TRUE]
    ELSE GetTasksLoop(p.val, 1, now, TimerZero)

\* get_tasks: total_seconds and is_running of one task; hours 0 and not
\* running when the text does not parse.
GetTasksTimer(text, now) ==
    LET p == json_loads(text) IN
    IF ~p.ok THEN TimerZero ELSE GetTasksLoop(p.val, 1, now, TimerZero)

\* The loop of get_task_details: as get_tasks, and one "Entry i" line for
\* every entry it counts (out is the list of [entry, seconds]).
RECURSIVE GetTaskDetailsLoop(_, _, _, _)
GetTaskDetailsLoop(logs, i, now, acc) ==
    IF i > Len(logs) THEN acc
    ELSE LET start == EntryStart(logs[i])
             end0 == EntryEnd(logs[i])
             open == end0 = 0 /\ start > 0
             end == IF open THEN now ELSE end0
             counted == Truthy(start) /\ Truthy(end)
         IN GetTaskDetailsLoop(logs, i + 1, now,
                [seconds |-> acc.seconds + (IF counted THEN end - start ELSE 0),
                 running |-> acc.running \/ open,
                 entries |-> IF counted
                             THEN Append(acc.entries, <<i, end - start>>)
                             ELSE acc.entries])

DetailsZero == [seconds |-> 0, running |-> FALSE, entries |-> <<>>]

GetTaskDetailsTimer(text, now) ==
    LET p == json_loads(text) IN
    IF ~p.ok THEN DetailsZero ELSE GetTaskDetailsLoop(p.val, 1, now, DetailsZero)

\* The loop of get_project_summary.
RECURSIVE ProjectSummaryLoop(_, _, _, _)
ProjectSummaryLoop(logs, i, now, acc) ==
    IF i > Len(logs) THEN acc
    ELSE LET start == EntryStart(logs[i])
             end0 == EntryEnd(logs[i])
             open == end0 = 0 /\ start > 0
             end == IF open THEN now ELSE end0
             add == IF Truthy(start) /\ Truthy(end) THEN end - start ELSE 0
         IN ProjectSummaryLoop(logs, i + 1, now,
                [seconds |-> acc.seconds + add, running |-> acc.running \/ open])

\* get_project_summary: one task's task_seconds and is_running; failed when
\* the except branch is taken (the task is listed as "0h" and adds nothing).
ProjectSummaryTimer(text, now) ==
    LET p == json_loads(text) IN
    IF ~p.ok THEN [seconds |-> 0, running |-> FALSE, failed |-> TRUE]
    ELSE LET r == ProjectSummaryLoop(p.val, 1, now, TimerZero) IN
         [seconds |-> r.seconds, running |-> r.running, failed |-> FALSE]

\* The loop of get_billable_hours: a missing or zero end is the current time.
RECURSIVE BillableLoop(_, _, _, _)
BillableLoop(logs, i, now, seconds) ==
    IF i > Len(logs) THEN seconds
    ELSE LET start == EntryStart(logs[i])
             end == IF Len(logs[i]) > 1 /\ Truthy(logs[i][2]) THEN logs[i][2] ELSE now
             add == IF Truthy(start) /\ Truthy(end) THEN end - start ELSE 0
         IN BillableLoop(logs, i + 1, now, seconds + add)

\* get_billable_hours: task_seconds of one task, 0 when the text does not parse.
BillableSeconds(text, now) ==
    LET p == json_loads(text) IN
    IF ~p.ok THEN 0 ELSE BillableLoop(p.val, 1, now, 0)

\* get_business_dashboard: whether one task counts as a running timer.
DashboardRunning(text) ==
    LET p == json_loads(text) IN
    IF ~p.ok THEN FALSE
    ELSE p.val # <<>> /\ Len(Last(p.val)) = 1

\* A variant of LastEntryOpen that looks at the first entry (logs[0]).
LastEntryOpen_first(logs) == logs # <<>> /\ Len(logs[1]) = 1

\* start_task's check "already running": the last entry has only a start.
LastEntryOpen(logs) == logs # <<>> /\ Len(Last(logs)) = 1

\* A variant of StopNotRunning that only tests for the empty log.
StopNotRunning_empty(logs) == logs = <<>>

\* stop_task's check "not currently running".
StopNotRunning(logs) == logs = <<>> \/ Len(Last(logs)) # 1

\* A variant of CloseLast that appends a new entry (logs.append([now])).
CloseLast_append(logs, now) == Append(logs, <<now>>)

\* stop_task: logs[-1].append(current_time).
CloseLast(logs, now) == [logs EXCEPT ![Len(logs)] = Append(@, now)]

\* A variant of LoadLogs that keeps only the last entry of the text.
LoadLogs_last(text) ==
    LET p == json_loads(text) IN
    IF p.ok /\ p.val # <<>> THEN <<Last(p.val)>> ELSE <<>>

\* A variant of LoadLogs that reads a text that does not parse as a log with
\* one open entry.
LoadLogs_open(text) ==
    LET p == json_loads(text) IN IF p.ok THEN p.val ELSE <<<<1>>>>

\* time_log text to logs as start_task, stop_task and log_time read it: the
\* empty list when the text does not parse.
LoadLogs(text) ==
    LET p == json_loads(text) IN IF p.ok THEN p.val ELSE <<>>

\* int(x) of the rational num / den: truncation toward zero.
IntTrunc(num, den) ==
    IF num >= 0 THEN num \div den ELSE -((-num) \div den)

SecondsPerHour == 3600

\* A variant of DurationSeconds that rounds down (hours * 3600 // 1).
DurationSeconds_floor(n) == (n * SecondsPerHour) \div HoursDen

\* A variant of DurationSeconds with the sign reversed.
DurationSeconds_neg(n) == -IntTrunc(n * SecondsPerHour, HoursDen)

\* duration_seconds = int(hours * 3600) for hours = n / HoursDen.
DurationSeconds(n) == IntTrunc(n * SecondsPerHour, HoursDen)

\* ------------------------------------------------------------------ state

VARIABLES
    clock,       \* int(time.time())
    created,     \* the tasks the upstream store holds
    time_log,    \* the time_log text of each task in the store
    invoice_id,  \* whether the task carries an invoice_id
    rate,        \* the task's own hourly rate (0: none)
    task_rate,   \* the hourly rate of the project the tasks belong to
    NINJA_URL,   \* whether the environment sets NINJA_URL
    NINJA_TOKEN, \* whether the environment sets NINJA_TOKEN
    invoices,    \* the overdue invoices the upstream lists
    payments,    \* the payments the upstream lists
    calls,       \* the invocations in progress at the same time: what each
                 \* has read, and written or is about to write
    last         \* the tool invocation that returned at this clock value, if any:
                 \* what it read, wrote and returned

vars ==
    <<clock, created, time_log, invoice_id, rate, task_rate, NINJA_URL, NINJA_TOKEN,
      invoices, payments, calls, last>>
store == <<created, time_log, invoice_id, rate, task_rate>>
config == <<NINJA_URL, NINJA_TOKEN>>
books == <<invoices, payments>>

\* How a GET ends: raise_for_status passes on a body of the expected shape
\* ("ok"), the request raises (no connection, timeout: "network"),
\* raise_for_status raises on a 4xx or 5xx ("status"), or the body is not the
\* JSON object the tool reads, so that response.json() or .get raises ("shape").
GetOutcomes == {"ok", "network", "status", "shape"}
\* How a PUT or POST ends: 200, another status, or an exception.
PutOutcomes == {"200", "rejected", "raised"}
\* How the requests of a read-modify-write tool end: the GET fails (no PUT
\* follows), or the GET passes and the PUT ends in one of its three ways.
NetOutcomes ==
    {<<g, "none">> : g \in GetOutcomes \ {"ok"}} \cup {<<"ok", p>> : p \in PutOutcomes}

\* How the two GETs of get_project_summary end: the second is issued only
\* when the first has passed.
TwoGetOutcomes ==
    {<<g, "none">> : g \in GetOutcomes \ {"ok"}} \cup {<<"ok", g>> : g \in GetOutcomes}

\* A variant of FirstRequest for an upstream that answers whatever the
\* configuration is.
FirstRequest_any(g) == TRUE

\* How the first request of a tool can end under the configuration: without
\* NINJA_URL the URL is "None/..." and the request raises, without
\* NINJA_TOKEN the request carries no token and the upstream, which
\* authenticates by token, answers with a 4xx status.
FirstRequest(g) ==
    IF ~NINJA_URL THEN g \in {"network", "raised"}
    ELSE IF ~NINJA_TOKEN THEN g \in {"status", "rejected"}
    ELSE TRUE

\* The fault a PUT or POST outcome is.
PutFault(p) ==
    IF p = "rejected" THEN "status" ELSE IF p = "raised" THEN "network" ELSE "none"

\* The hours arguments of log_time, as numerators over HoursDen.
\* of a negative, a zero, a sub-second and a whole-second duration.
HoursNums == {-2, 0, 1, 2}
\* hours = 2, the documented example.
TwoHours == 2 * HoursDen

NoCall ==
    [op |-> "none", task |-> "none", hours |-> 0, result |-> "none",
     fault |-> "none",
     got |-> FALSE, read |-> <<>>, put |-> FALSE, payload |-> <<>>,
     duration |-> 0, rows |-> <<>>, total_seconds |-> 0, total_billable |-> 0,
     running_tasks |-> 0, today |-> 0, total |-> 0, buckets |-> <<>>,
     args |-> <<>>, count |-> 0, shown |-> <<>>, more |-> 0,
     requests |-> <<>>, invoice |-> <<>>]

Call(op, t) == [NoCall EXCEPT !.op = op, !.task = t]

\* Two invocations may be in progress at the same time.
Invocations == {1, 2}
NoCalls == [i \in Invocations |-> NoCall]

\* The tasks a list request returns, in the upstream's order.
Listed == SelectSeq(TaskOrder, LAMBDA t : t \in created)

\* The sessions the store holds, over all tasks.
RECURSIVE StoredSessions(_)
StoredSessions(i) ==
    IF i > Len(TaskOrder) THEN 0
    ELSE (IF TaskOrder[i] \in created THEN Len(LoadLogs(time_log[TaskOrder[i]])) ELSE 0)
         + StoredSessions(i + 1)

\* A mutation may append while the store holds fewer than MaxSessions.
Room == StoredSessions(1) < MaxSessions

\* A variant of Put without the enclosing except: an exception of the PUT
\* leaves the tool as an exception.
Put_uncaught(t, payload, p, call, done) ==
    LET w == [call EXCEPT !.put = TRUE, !.payload = payload] IN
    IF p = "200"
    THEN /\ time_log' = [time_log EXCEPT ![t] = payload]
         /\ last' = [w EXCEPT !.result = done]
    ELSE /\ UNCHANGED time_log
         /\ last' = [w EXCEPT !.fault = PutFault(p),
                               !.result = IF p = "rejected" THEN "failed" ELSE "exception"]

\* The response to requests.put(.../tasks/{id}, json = {"time_log": payload}).
Put(t, payload, p, call, done) ==
    LET w == [call EXCEPT !.put = TRUE, !.payload = payload] IN
    IF p = "200"
    THEN /\ time_log' = [time_log EXCEPT ![t] = payload]
         /\ last' = [w EXCEPT !.result = done]
    ELSE /\ UNCHANGED time_log
         /\ last' = [w EXCEPT !.fault = PutFault(p),
                               !.result = IF p = "rejected" THEN "failed" ELSE "error"]

\* ---------------------------------------------------------------- actions

Tick ==
    /\ clock < MaxClock
    /\ clock' = clock + 1
    /\ last' = NoCall
    /\ UNCHANGED <<store, config, books, calls>>

create_task(t, r, p) ==
    /\ t \notin created
    /\ FirstRequest(p)
    /\ IF p = "200"
       THEN /\ created' = created \cup {t}
            /\ time_log' = [time_log EXCEPT ![t] = EmptyLogText]
            /\ invoice_id' = [invoice_id EXCEPT ![t] = FALSE]
            /\ rate' = [rate EXCEPT ![t] = r]
            /\ UNCHANGED task_rate
            /\ last' = [Call("create_task", t) EXCEPT
                            !.put = TRUE, !.payload = EmptyLogText, !.result = "created"]
       ELSE /\ UNCHANGED store
            /\ last' = [Call("create_task", t) EXCEPT
                            !.put = TRUE, !.payload = EmptyLogText,
                            !.fault = PutFault(p),
                            !.result = IF p = "rejected" THEN "failed" ELSE "error"]
    /\ UNCHANGED <<clock, config, books, calls>>

start_task(t, g, p) ==
    /\ UNCHANGED <<clock, created, invoice_id, rate, task_rate, config, books, calls>>
    /\ FirstRequest(g)
    /\ IF g # "ok" \/ t \notin created
       THEN /\ last' = [Call("start_task", t) EXCEPT !.fault = g, !.result = "error"]
            /\ UNCHANGED time_log
       ELSE LET logs == LoadLogs(time_log[t])
                call == [Call("start_task", t) EXCEPT !.got = TRUE, !.read = time_log[t]]
            IN IF LastEntryOpen(logs)
               THEN /\ last' = [call EXCEPT !.result = "already_running"]
                    /\ UNCHANGED time_log
               ELSE /\ Room
                    /\ Put(t, json_dumps(Append(logs, <<clock>>)), p, call, "started")

stop_task(t, g, p) ==
    /\ UNCHANGED <<clock, created, invoice_id, rate, task_rate, config, books, calls>>
    /\ FirstRequest(g)
    /\ IF g # "ok" \/ t \notin created
       THEN /\ last' = [Call("stop_task", t) EXCEPT !.fault = g, !.result = "error"]
            /\ UNCHANGED time_log
       ELSE LET logs == LoadLogs(time_log[t])
                call == [Call("stop_task", t) EXCEPT !.got = TRUE, !.read = time_log[t]]
            IN IF StopNotRunning(logs)
               THEN /\ last' = [call EXCEPT !.result = "not_running"]
                    /\ UNCHANGED time_log
               ELSE LET closed == CloseLast(logs, clock)
                        start_time == Last(closed)[1]
                    IN Put(t, json_dumps(closed), p,
                           [call EXCEPT !.duration = clock - start_time], "stopped")

log_time(t, n, g, p) ==
    /\ UNCHANGED <<clock, created, invoice_id, rate, task_rate, config, books, calls>>
    /\ FirstRequest(g)
    /\ IF g # "ok" \/ t \notin created
       THEN /\ last' = [Call("log_time", t) EXCEPT
                            !.hours = n, !.fault = g, !.result = "error"]
            /\ UNCHANGED time_log
       ELSE LET logs == LoadLogs(time_log[t])
                call == [Call("log_time", t) EXCEPT
                             !.hours = n, !.got = TRUE, !.read = time_log[t]]
                start_time == clock - DurationSeconds(n)
            IN /\ Room
               /\ Put(t, json_dumps(Append(logs, <<start_time, clock>>)), p, call, "logged")

\* One line of a report.  Amounts are carried times 3600: hours * rate is
\* seconds * rate / 3600, and billable holds seconds * rate.
Row(t, seconds, running, failed, entries) ==
    [task |-> t, seconds |-> seconds, running |-> running,
     failed |-> failed, entries |-> entries, billable |-> 0]

GetTasksRow(t) ==
    LET r == GetTasksTimer(time_log[t], clock) IN
    Row(t, r.seconds, r.running, FALSE, <<>>)

\* The status argument is not read: the request asks for status=active
\* whatever it is, and every task of the response is listed.
get_tasks(status, g) ==
    LET call == [Call("get_tasks", "none") EXCEPT !.args = <<status>>] IN
    /\ UNCHANGED <<clock, store, config, books, calls>>
    /\ FirstRequest(g)
    /\ last' = IF g # "ok"
               THEN [call EXCEPT !.fault = g, !.result = "error"]
               ELSE IF Listed = <<>>
               THEN [call EXCEPT !.got = TRUE, !.result = "no_tasks"]
               ELSE [call EXCEPT
                         !.got = TRUE, !.result = "report",
                         !.rows = [i \in 1 .. Len(Listed) |-> GetTasksRow(Listed[i])]]

\* A variant of DetailsBillable that bills the rate once, whatever the hours.
DetailsBillable_flat(seconds, r) == IF Truthy(r) THEN SecondsPerHour * r ELSE 0

\* get_task_details: billable = hours * float(rate) if rate else 0.
DetailsBillable(seconds, r) == IF Truthy(r) THEN seconds * r ELSE 0

get_task_details(t, g) ==
    /\ UNCHANGED <<clock, store, config, books, calls>>
    /\ FirstRequest(g)
    /\ last' = IF g # "ok" \/ t \notin created
               THEN [Call("get_task_details", t) EXCEPT !.fault = g, !.result = "error"]
               ELSE LET r == GetTaskDetailsTimer(time_log[t], clock)
                        billable == DetailsBillable(r.seconds, rate[t])
                    IN [Call("get_task_details", t) EXCEPT
                            !.got = TRUE, !.read = time_log[t], !.result = "report",
                            !.rows = <<Row(t, r.seconds, r.running, FALSE, r.entries)>>,
                            !.total_seconds = r.seconds,
                            !.total_billable = billable]

ReportZero ==
    [total_seconds |-> 0, total_billable |-> 0, running_tasks |-> 0, rows |-> <<>>]

\* get_project_summary: rate = float(t.get('rate', 0)) or task_rate.
ProjectSummaryRate(t) == IF Truthy(rate[t]) THEN rate[t] ELSE task_rate

\* A variant of ProjectSummaryTasks whose try encloses the whole loop: the
\* first task that fails to parse ends it.
RECURSIVE ProjectSummaryTasks_abort(_, _, _)
ProjectSummaryTasks_abort(tasks, i, acc) ==
    IF i > Len(tasks) THEN acc
    ELSE LET r == ProjectSummaryTimer(time_log[tasks[i]], clock) IN
         IF r.failed
         THEN [acc EXCEPT !.rows = Append(@, Row(tasks[i], 0, FALSE, TRUE, <<>>))]
         ELSE ProjectSummaryTasks_abort(tasks, i + 1,
                  [acc EXCEPT
                       !.total_seconds = @ + r.seconds,
                       !.running_tasks = @ + (IF r.running THEN 1 ELSE 0),
                       !.rows = Append(@,
                           [Row(tasks[i], r.seconds, r.running, FALSE, <<>>) EXCEPT
                                !.billable = r.seconds * ProjectSummaryRate(tasks[i])])])

\* The loop of get_project_summary over the tasks i.. of the project.
RECURSIVE ProjectSummaryTasks(_, _, _)
ProjectSummaryTasks(tasks, i, acc) ==
    IF i > Len(tasks) THEN acc
    ELSE LET r == ProjectSummaryTimer(time_log[tasks[i]], clock) IN
         ProjectSummaryTasks(tasks, i + 1,
             IF r.failed
             THEN [acc EXCEPT !.rows = Append(@, Row(tasks[i], 0, FALSE, TRUE, <<>>))]
             ELSE [acc EXCEPT
                       !.total_seconds = @ + r.seconds,
                       !.running_tasks = @ + (IF r.running THEN 1 ELSE 0),
                       !.rows = Append(@,
                           [Row(tasks[i], r.seconds, r.running, FALSE, <<>>) EXCEPT
                                !.billable = r.seconds * ProjectSummaryRate(tasks[i])])])


\* g1 answers the request for the project, g2 the request for its tasks.
get_project_summary(g1, g2) ==
    /\ UNCHANGED <<clock, store, config, books, calls>>
    /\ FirstRequest(g1)
    /\ last' = IF g1 # "ok" \/ g2 # "ok"
               THEN [Call("get_project_summary", "none") EXCEPT
                         !.fault = IF g1 # "ok" THEN g1 ELSE g2, !.result = "error"]
               ELSE LET r == ProjectSummaryTasks(Listed, 1, ReportZero) IN
                    [Call("get_project_summary", "none") EXCEPT
                         !.got = TRUE, !.result = "report", !.rows = r.rows,
                         !.total_seconds = r.total_seconds,
                         !.total_billable = r.total_seconds * task_rate,
                         !.running_tasks = r.running_tasks]

\* The loop of get_billable_hours over the tasks i.. it fetched.
RECURSIVE BillableTasks(_, _, _)
BillableTasks(tasks, i, acc) ==
    IF i > Len(tasks) THEN acc
    ELSE LET t == tasks[i]
             task_seconds == BillableSeconds(time_log[t], clock)
         IN BillableTasks(tasks, i + 1,
                IF invoice_id[t] THEN acc
                ELSE IF task_seconds > 0
                THEN [acc EXCEPT
                          !.total_seconds = @ + task_seconds,
                          !.total_billable = @ + task_seconds * rate[t],
                          !.rows = Append(@,
                              [Row(t, task_seconds, FALSE, FALSE, <<>>) EXCEPT
                                   !.billable = task_seconds * rate[t]])]
                ELSE acc)

\* The first n items of a list (items[:n] for n >= 0).
Top(items, n) == SubSeq(items, 1, IF Len(items) < n THEN Len(items) ELSE n)

\* The task lines get_billable_hours shows.
BillableTop == 10

get_billable_hours(g) ==
    /\ UNCHANGED <<clock, store, config, books, calls>>
    /\ FirstRequest(g)
    /\ last' = IF g # "ok"
               THEN [Call("get_billable_hours", "none") EXCEPT !.fault = g, !.result = "error"]
               ELSE IF Listed = <<>>
               THEN [Call("get_billable_hours", "none") EXCEPT
                         !.got = TRUE, !.result = "no_tasks"]
               ELSE LET r == BillableTasks(Listed, 1, ReportZero) IN
                    [Call("get_billable_hours", "none") EXCEPT
                         !.got = TRUE, !.result = "report", !.rows = r.rows,
                         !.total_seconds = r.total_seconds,
                         !.total_billable = r.total_billable,
                         !.shown = Top(r.rows, BillableTop),
                         !.more = IF Len(r.rows) > BillableTop
                                  THEN Len(r.rows) - BillableTop ELSE 0]

\* The running-timer count of get_business_dashboard over the tasks i.. .
RECURSIVE DashboardTasks(_, _, _)
DashboardTasks(tasks, i, running_tasks) ==
    IF i > Len(tasks) THEN running_tasks
    ELSE DashboardTasks(tasks, i + 1,
             running_tasks + (IF DashboardRunning(time_log[tasks[i]]) THEN 1 ELSE 0))

\* The dashboard requests clients, invoices, expenses, projects and tasks in
\* turn; g is "ok" when all five are answered.
get_business_dashboard(g) ==
    /\ UNCHANGED <<clock, store, config, books, calls>>
    /\ FirstRequest(g)
    /\ last' = IF g # "ok"
               THEN [Call("get_business_dashboard", "none") EXCEPT !.fault = g, !.result = "error"]
               ELSE [Call("get_business_dashboard", "none") EXCEPT
                         !.got = TRUE, !.result = "report",
                         !.running_tasks = DashboardTasks(Listed, 1, 0)]

\* ------------------------------------------ invocations at the same time

Mutations == {"start_task", "stop_task", "log_time"}

\* The log start_task, stop_task (n is not read) or log_time(hours = n /
\* HoursDen) computes from the logs it read, at current_time = now.
NewLogsAt(op, logs, n, now) ==
    IF op = "start_task" THEN Append(logs, <<now>>)
    ELSE IF op = "stop_task" THEN CloseLast(logs, now)
    ELSE Append(logs, <<now - DurationSeconds(n), now>>)

NewLogs(op, logs, n) == NewLogsAt(op, logs, n, clock)

\* The text the tool returns without a PUT, "none" when it goes on.
Refusal(op, logs) ==
    IF op = "start_task" /\ LastEntryOpen(logs) THEN "already_running"
    ELSE IF op = "stop_task" /\ StopNotRunning(logs) THEN "not_running"
    ELSE "none"

Success(op) ==
    IF op = "start_task" THEN "started"
    ELSE IF op = "stop_task" THEN "stopped" ELSE "logged"

\* A variant of ReadStep with a process-wide cache of the task's log: the log
\* the other invocation computed, when there is one, is used in place of the
\* stored one.
ReadStep_cached(i, op, t, n, g) ==
    /\ calls[i].op = "none"
    /\ t \in created
    /\ FirstRequest(g)
    /\ UNCHANGED <<clock, store, config, books, last>>
    /\ LET call == [Call(op, t) EXCEPT !.hours = n]
           other == calls[3 - i]
           text == IF other.task = t /\ other.payload # <<>>
                   THEN other.payload ELSE time_log[t]
           logs == LoadLogs(text)
       IN IF g # "ok"
          THEN calls' = [calls EXCEPT ![i] = [call EXCEPT !.fault = g, !.result = "error"]]
          ELSE IF Refusal(op, logs) # "none"
          THEN calls' = [calls EXCEPT ![i] =
                            [call EXCEPT !.got = TRUE, !.read = text,
                                         !.result = Refusal(op, logs)]]
          ELSE /\ op = "stop_task" \/ Room
               /\ calls' = [calls EXCEPT ![i] =
                                [call EXCEPT !.got = TRUE, !.read = text,
                                             !.payload = json_dumps(NewLogs(op, logs, n)),
                                             !.result = "pending"]]

\* The first half of invocation i of start_task, stop_task or log_time on
\* task t: the GET, the parse, the check and the new log.  The invocation
\* ends here when the GET fails or the check refuses, and is left with the
\* PUT to issue ("pending") otherwise.
ReadStep(i, op, t, n, g) ==
    /\ calls[i].op = "none"
    /\ t \in created
    /\ FirstRequest(g)
    /\ UNCHANGED <<clock, store, config, books, last>>
    /\ LET call == [Call(op, t) EXCEPT !.hours = n]
           logs == LoadLogs(time_log[t])
       IN IF g # "ok"
          THEN calls' = [calls EXCEPT ![i] = [call EXCEPT !.fault = g, !.result = "error"]]
          ELSE IF Refusal(op, logs) # "none"
          THEN calls' = [calls EXCEPT ![i] =
                            [call EXCEPT !.got = TRUE, !.read = time_log[t],
                                         !.result = Refusal(op, logs)]]
          ELSE /\ op = "stop_task" \/ Room
               /\ calls' = [calls EXCEPT ![i] =
                                [call EXCEPT !.got = TRUE, !.read = time_log[t],
                                             !.payload = json_dumps(NewLogs(op, logs, n)),
                                             !.result = "pending"]]

\* A variant of WriteStep against an upstream that adds the last session of
\* the payload to the log it holds.
WriteStep_merge(i, p) ==
    /\ calls[i].result = "pending"
    /\ UNCHANGED <<clock, created, invoice_id, rate, task_rate, config, books, last>>
    /\ LET call == [calls[i] EXCEPT !.put = TRUE] IN
       IF p = "200"
       THEN /\ time_log' = [time_log EXCEPT ![call.task] =
                                json_dumps(Append(LoadLogs(@),
                                                  Last(LoadLogs(call.payload))))]
            /\ calls' = [calls EXCEPT ![i] = [call EXCEPT !.result = Success(call.op)]]
       ELSE /\ UNCHANGED time_log
            /\ calls' = [calls EXCEPT ![i] =
                             [call EXCEPT
                                  !.fault = PutFault(p),
                                  !.result = IF p = "rejected" THEN "failed" ELSE "error"]]

\* The second half of invocation i: the PUT of the log it computed, which
\* replaces the stored time_log on a 200.
WriteStep(i, p) ==
    /\ calls[i].result = "pending"
    /\ UNCHANGED <<clock, created, invoice_id, rate, task_rate, config, books, last>>
    /\ LET call == [calls[i] EXCEPT !.put = TRUE] IN
       IF p = "200"
       THEN /\ time_log' = [time_log EXCEPT ![call.task] = call.payload]
            /\ calls' = [calls EXCEPT ![i] = [call EXCEPT !.result = Success(call.op)]]
       ELSE /\ UNCHANGED time_log
            /\ calls' = [calls EXCEPT ![i] =
                             [call EXCEPT
                                  !.fault = PutFault(p),
                                  !.result = IF p = "rejected" THEN "failed" ELSE "error"]]

\* ------------------------------------------- invocations, request by request

\* A request an invocation has issued, and how it ended ("waiting" while it
\* has not).
Req(method, resource) ==
    [method |-> method, resource |-> resource, outcome |-> "waiting"]

\* The requests of a tool in the order of its code; each is issued when the
\* ones before it have passed.
Plan(op) ==
    IF op \in Mutations THEN <<Req("GET", "task"), Req("PUT", "task")>>
    ELSE IF op = "apply_payment_to_invoice"
    THEN <<Req("GET", "invoice"), Req("POST", "payments")>>
    ELSE IF op = "get_business_dashboard"
    THEN <<Req("GET", "clients"), Req("GET", "invoices"), Req("GET", "expenses"),
           Req("GET", "projects"), Req("GET", "tasks")>>
    ELSE IF op = "get_tasks" THEN <<Req("GET", "tasks")>>
    ELSE <<>>

\* The requests of the invocation that have passed.
Answered(call) ==
    Cardinality({k \in 1 .. Len(call.requests) :
                    call.requests[k].outcome \in {"ok", "200"}})

\* The invocation waits for the response to its latest request.
Waiting(call) ==
    call.requests # <<>> /\ Last(call.requests).outcome = "waiting"

\* A variant of LastAnswer of a tool that does not end with its last response.
LastAnswer_never(call) == FALSE

\* The response that has passed was the one to the last request of the tool.
LastAnswer(call) == Answered(call) = Len(Plan(call.op))

\* A variant of OnFailure that goes on as if no request had been issued, so
\* that the request is issued again.
OnFailure_retry(call, o) == call

\* A request that raised or was answered with another status ends the
\* invocation: the except branch returns the error text, the else branch
\* of a PUT or POST the "Failed" text.
OnFailure(call, o) ==
    [call EXCEPT !.fault = IF o \in GetOutcomes THEN o ELSE PutFault(o),
                 !.put = Last(call.requests).method # "GET",
                 !.result = IF o = "rejected" THEN "failed" ELSE "error"]

\* An invoice that apply_payment_to_invoice reads: its client_id and balance.
PayableInvoice(number, client, balance) ==
    [number |-> number, due |-> [kind |-> "none", day |-> 0],
     balance |-> balance, client |-> client]

\* A variant of PaymentRefused that lets every amount through.
PaymentRefused_never(amount, invoice_balance) == FALSE

\* apply_payment_to_invoice: if amount > invoice_balance.
PaymentRefused(amount, invoice_balance) == amount > invoice_balance

\* The tool is invoked: nothing is requested yet.  A tool without requests
\* (help) returns at once.
Invoke(i, op, t, n, a) ==
    /\ calls[i].op = "none"
    /\ op \in Mutations => t \in created
    /\ calls' = [calls EXCEPT ![i] =
                     [Call(op, t) EXCEPT
                          !.hours = n, !.args = a,
                          !.result = IF Plan(op) = <<>> THEN "help" ELSE "pending"]]
    /\ UNCHANGED <<clock, store, config, books, last>>

\* The invocation issues its next request.
Send(i) ==
    /\ calls[i].result = "pending"
    /\ ~Waiting(calls[i])
    /\ Len(calls[i].requests) < MaxRequests
    /\ Answered(calls[i]) < Len(Plan(calls[i].op))
    /\ calls' = [calls EXCEPT ![i].requests =
                     Append(@, Plan(calls[i].op)[Answered(calls[i]) + 1])]
    /\ UNCHANGED <<clock, store, config, books, last>>

\* start_task, stop_task, log_time after a response that passed: after the
\* GET the check and the new log, after the PUT the text of success.
AnswerMutation(i, call) ==
    /\ UNCHANGED payments
    /\ IF Last(call.requests).method = "GET"
       THEN LET logs == LoadLogs(time_log[call.task])
                got == [call EXCEPT !.got = TRUE, !.read = time_log[call.task]]
            IN /\ UNCHANGED time_log
               /\ calls' = [calls EXCEPT ![i] =
                      IF Refusal(call.op, logs) # "none"
                      THEN [got EXCEPT !.result = Refusal(call.op, logs)]
                      ELSE [got EXCEPT !.payload =
                                json_dumps(NewLogs(call.op, logs, call.hours))]]
       ELSE /\ time_log' = [time_log EXCEPT ![call.task] = call.payload]
            /\ calls' = [calls EXCEPT ![i] =
                   [call EXCEPT !.put = TRUE,
                                !.result = IF LastAnswer(call)
                                           THEN Success(call.op) ELSE "pending"]]

\* apply_payment_to_invoice(invoice_id = args[1], amount = args[2]) after a
\* response that passed.  The upstream's own bookkeeping of a payment is not
\* part of the tool: the store keeps the payment it was sent.
AnswerPayment(i, call) ==
    /\ UNCHANGED time_log
    /\ IF Last(call.requests).method = "GET"
       THEN LET found == {k \in 1 .. Len(invoices) : invoices[k].number = call.args[1]}
                invoice == invoices[CHOOSE k \in found : TRUE]
                amount == call.args[2]
            IN /\ UNCHANGED payments
               /\ calls' = [calls EXCEPT ![i] =
                      IF found = {}
                      THEN [call EXCEPT !.got = TRUE, !.result = "not_found"]
                      ELSE IF PaymentRefused(amount, invoice.balance)
                      THEN [call EXCEPT !.got = TRUE, !.invoice = invoice,
                                        !.result = "warning"]
                      ELSE [call EXCEPT
                                !.got = TRUE, !.invoice = invoice,
                                !.payload = [client |-> invoice.client,
                                             amount |-> amount,
                                             invoice |-> call.args[1],
                                             applied |-> amount,
                                             date |-> 0]]]
       ELSE /\ payments' = Append(payments, call.payload)
            /\ calls' = [calls EXCEPT ![i] =
                   [call EXCEPT !.put = TRUE,
                                !.total = call.invoice.balance - call.args[2],
                                !.result = IF LastAnswer(call)
                                           THEN "applied" ELSE "pending"]]

\* get_tasks and get_business_dashboard after a response that passed: the
\* report, after the last one.
AnswerReport(i, call) ==
    /\ UNCHANGED <<time_log, payments>>
    /\ calls' = [calls EXCEPT ![i] =
           IF ~LastAnswer(call) THEN call
           ELSE IF call.op = "get_tasks"
           THEN [call EXCEPT !.got = TRUE, !.result = "report",
                             !.rows = [k \in 1 .. Len(Listed) |-> GetTasksRow(Listed[k])]]
           ELSE [call EXCEPT !.got = TRUE, !.result = "report",
                             !.running_tasks = DashboardTasks(Listed, 1, 0)]]

\* The latest request of the invocation ends with outcome o, and the tool
\* runs up to its next request or to its return.
Respond(i, o) ==
    /\ Waiting(calls[i])
    /\ o \in IF Last(calls[i].requests).method = "GET" THEN GetOutcomes ELSE PutOutcomes
    /\ Len(calls[i].requests) = 1 => FirstRequest(o)
    /\ UNCHANGED <<clock, created, invoice_id, rate, task_rate, config, invoices, last>>
    /\ LET call == [calls[i] EXCEPT !.requests[Len(calls[i].requests)].outcome = o] IN
       IF o \notin {"ok", "200"}
       THEN /\ calls' = [calls EXCEPT ![i] = OnFailure(call, o)]
            /\ UNCHANGED <<time_log, payments>>
       ELSE IF call.op \in Mutations THEN AnswerMutation(i, call)
       ELSE IF call.op = "apply_payment_to_invoice" THEN AnswerPayment(i, call)
       ELSE AnswerReport(i, call)

\* ------------------------------------------------------------ ping, help

\* ping: one GET whose status is compared with 200.
ping(p) ==
    /\ UNCHANGED <<clock, store, config, books, calls>>
    /\ FirstRequest(p)
    /\ last' = [Call("ping", "none") EXCEPT
                    !.fault = PutFault(p),
                    !.got = p = "200",
                    !.result = IF p = "200" THEN "connected"
                               ELSE IF p = "rejected" THEN "failed" ELSE "error"]

\* help returns the list of tools; it issues no request.
help ==
    /\ UNCHANGED <<clock, store, config, books, calls>>
    /\ last' = [Call("help", "none") EXCEPT !.result = "help"]

\* ---------------------------------------------------- get_overdue_aging

\* An invoice as the upstream lists it: its number, its due_date (absent, a
\* text that is no date, or the day it names) and its balance.
Invoice(number, kind, day, balance) ==
    [number |-> number, due |-> [kind |-> kind, day |-> day], balance |-> balance]

\* The sum of the balances of the entries 1 .. n.
RECURSIVE SumBalance(_, _)
SumBalance(entries, n) ==
    IF n = 0 THEN 0 ELSE SumBalance(entries, n - 1) + entries[n].balance

\* A variant of AgingBucket that tests days_overdue < 30, < 60, < 90.
AgingBucket_lt(days_overdue) ==
    IF days_overdue < 30 THEN 1
    ELSE IF days_overdue < 60 THEN 2
    ELSE IF days_overdue < 90 THEN 3
    ELSE 4

\* The bucket of an overdue invoice: 1 is '1-30 days', 2 is '31-60 days',
\* 3 is '61-90 days', 4 is '90+ days'.
AgingBucket(days_overdue) ==
    IF days_overdue <= 30 THEN 1
    ELSE IF days_overdue <= 60 THEN 2
    ELSE IF days_overdue <= 90 THEN 3
    ELSE 4

NoBuckets == [b \in 1 .. 4 |-> <<>>]

\* The loop of get_overdue_aging over the invoices i.. : an invoice without
\* due_date, with a due_date that is no date or with days_overdue <= 0 is
\* passed over.
RECURSIVE AgingLoop(_, _, _, _)
AgingLoop(invs, i, today, buckets) ==
    IF i > Len(invs) THEN buckets
    ELSE LET inv == invs[i]
             days_overdue == today - inv.due.day
         IN AgingLoop(invs, i + 1, today,
                IF inv.due.kind # "date" \/ days_overdue <= 0 THEN buckets
                ELSE [buckets EXCEPT ![AgingBucket(days_overdue)] =
                          Append(@, [number |-> inv.number, balance |-> inv.balance,
                                     days |-> days_overdue])])

\* The entries a bucket shows.
AgingTop == 5

\* A variant of AgingLine that adds up the entries it shows.
AgingLine_top(entries) ==
    [total |-> SumBalance(Top(entries, AgingTop), Len(Top(entries, AgingTop))),
     count |-> Len(entries),
     shown |-> Top(entries, AgingTop),
     more |-> IF Len(entries) > AgingTop THEN Len(entries) - AgingTop ELSE 0]

\* What the report prints of one bucket: its total, its number of invoices,
\* its first entries and how many more there are.
AgingLine(entries) ==
    [total |-> SumBalance(entries, Len(entries)),
     count |-> Len(entries),
     shown |-> Top(entries, AgingTop),
     more |-> IF Len(entries) > AgingTop THEN Len(entries) - AgingTop ELSE 0]

get_overdue_aging(today, g) ==
    /\ UNCHANGED <<clock, store, config, books, calls>>
    /\ FirstRequest(g)
    /\ last' = IF g # "ok"
               THEN [Call("get_overdue_aging", "none") EXCEPT !.fault = g, !.result = "error"]
               ELSE IF invoices = <<>>
               THEN [Call("get_overdue_aging", "none") EXCEPT
                         !.got = TRUE, !.result = "no_overdue"]
               ELSE LET buckets == AgingLoop(invoices, 1, today, NoBuckets) IN
                    [Call("get_overdue_aging", "none") EXCEPT
                         !.got = TRUE, !.result = "report", !.today = today,
                         !.total = SumBalance(buckets[1], Len(buckets[1]))
                                   + SumBalance(buckets[2], Len(buckets[2]))
                                   + SumBalance(buckets[3], Len(buckets[3]))
                                   + SumBalance(buckets[4], Len(buckets[4])),
                         !.buckets = [b \in 1 .. 4 |-> AgingLine(buckets[b])]]

\* ------------------------------- get_revenue_by_client, get_revenue_report

\* A payment as the upstream lists it: its date ('' is 0, the date
\* YYYY-MM-DD is the number MM * 100 + DD, which orders dates as the texts
\* are ordered), its amount and the id of its client (0: no client).  A
\* client's display_name is taken to be its id.
Payment(date, amount, client) == [date |-> date, amount |-> amount, client |-> client]

\* pay_date[:7], the month of a date.
MonthKey(date) == date \div 100

\* The date filters: a payment before start_date or after end_date is passed
\* over; an empty start_date or end_date filters nothing.
DateKept(pay_date, start_date, end_date) ==
    /\ ~(Truthy(start_date) /\ pay_date < start_date)
    /\ ~(Truthy(end_date) /\ pay_date > end_date)

\* totals[key] += amount on a dict kept in insertion order.
AddTo(totals, key, amount) ==
    IF \E j \in 1 .. Len(totals) : totals[j].key = key
    THEN [j \in 1 .. Len(totals) |->
              IF totals[j].key = key
              THEN [totals[j] EXCEPT !.total = @ + amount] ELSE totals[j]]
    ELSE Append(totals, [key |-> key, total |-> amount])

\* sorted(items, key = f, reverse = True): descending, items of equal key in
\* their given order.  by is "total" or "key".
SortKey(item, by) == IF by = "total" THEN item.total ELSE item.key

RECURSIVE InsertDesc(_, _, _, _)
InsertDesc(sorted, item, by, j) ==
    IF j > Len(sorted) THEN Append(sorted, item)
    ELSE IF SortKey(sorted[j], by) < SortKey(item, by)
    THEN SubSeq(sorted, 1, j - 1) \o <<item>> \o SubSeq(sorted, j, Len(sorted))
    ELSE InsertDesc(sorted, item, by, j + 1)

RECURSIVE SortedDesc(_, _, _)
SortedDesc(items, n, by) ==
    IF n = 0 THEN <<>>
    ELSE InsertDesc(SortedDesc(items, n - 1, by), items[n], by, 1)

\* The sum of the totals of the items 1 .. n.
RECURSIVE SumTotal(_, _)
SumTotal(items, n) == IF n = 0 THEN 0 ELSE SumTotal(items, n - 1) + items[n].total

\* The loop of get_revenue_by_client: the payments in the date range that
\* have a client, added up by client id.
RECURSIVE RevenueByClientLoop(_, _, _, _, _)
RevenueByClientLoop(pays, i, start_date, end_date, client_revenue) ==
    IF i > Len(pays) THEN client_revenue
    ELSE RevenueByClientLoop(pays, i + 1, start_date, end_date,
             IF ~DateKept(pays[i].date, start_date, end_date) \/ pays[i].client = 0
             THEN client_revenue
             ELSE AddTo(client_revenue, pays[i].client, pays[i].amount))

get_revenue_by_client(start_date, end_date, limit, g) ==
    LET call == [Call("get_revenue_by_client", "none") EXCEPT
                     !.args = <<start_date, end_date, limit>>]
    IN
    /\ UNCHANGED <<clock, store, config, books, calls>>
    /\ FirstRequest(g)
    /\ last' = IF g # "ok" THEN [call EXCEPT !.fault = g, !.result = "error"]
               ELSE LET client_revenue ==
                            RevenueByClientLoop(payments, 1, start_date, end_date, <<>>)
                        sorted_clients ==
                            SortedDesc(client_revenue, Len(client_revenue), "total")
                    IN IF client_revenue = <<>>
                       THEN [call EXCEPT !.got = TRUE, !.result = "no_revenue"]
                       ELSE [call EXCEPT
                                 !.got = TRUE, !.result = "report",
                                 !.total = SumTotal(sorted_clients, Len(sorted_clients)),
                                 !.count = Len(sorted_clients),
                                 !.shown = Top(sorted_clients, limit)]

\* The loop of get_revenue_report that keeps the payments in the date range.
Filtered(pays, start_date, end_date) ==
    SelectSeq(pays, LAMBDA p : DateKept(p.date, start_date, end_date))

\* The sum of the amounts of the payments 1 .. n.
RECURSIVE SumAmount(_, _)
SumAmount(pays, n) == IF n = 0 THEN 0 ELSE SumAmount(pays, n - 1) + pays[n].amount

\* by_month of get_revenue_report: the payments that carry a date, by month.
RECURSIVE ByMonth(_, _, _)
ByMonth(pays, i, by_month) ==
    IF i > Len(pays) THEN by_month
    ELSE ByMonth(pays, i + 1,
             IF Truthy(pays[i].date)
             THEN AddTo(by_month, MonthKey(pays[i].date), pays[i].amount)
             ELSE by_month)

\* by_client of get_revenue_report: all payments by client name, 'Unknown'
\* (0) for a payment without client.
RECURSIVE ByClient(_, _, _)
ByClient(pays, i, by_client) ==
    IF i > Len(pays) THEN by_client
    ELSE ByClient(pays, i + 1, AddTo(by_client, pays[i].client, pays[i].amount))

\* The clients get_revenue_report shows.
RevenueTop == 15

get_revenue_report(start_date, end_date, group_by, g) ==
    LET call == [Call("get_revenue_report", "none") EXCEPT
                     !.args = <<start_date, end_date, group_by>>]
    IN
    /\ UNCHANGED <<clock, store, config, books, calls>>
    /\ FirstRequest(g)
    /\ last' = IF g # "ok" THEN [call EXCEPT !.fault = g, !.result = "error"]
               ELSE LET filtered == Filtered(payments, start_date, end_date)
                        total_revenue == SumAmount(filtered, Len(filtered))
                        report == [call EXCEPT
                                       !.got = TRUE, !.result = "report",
                                       !.total = total_revenue,
                                       !.count = Len(filtered)]
                    IN IF filtered = <<>>
                       THEN [call EXCEPT !.got = TRUE, !.result = "no_payments"]
                       ELSE IF group_by = "month"
                       THEN LET by_month == ByMonth(filtered, 1, <<>>) IN
                            [report EXCEPT
                                 !.shown = SortedDesc(by_month, Len(by_month), "key")]
                       ELSE LET by_client == ByClient(filtered, 1, <<>>)
                                sorted_clients ==
                                    SortedDesc(by_client, Len(by_client), "total")
                            IN [report EXCEPT
                                    !.shown = Top(sorted_clients, RevenueTop),
                                    !.more = IF Len(sorted_clients) > RevenueTop
                                             THEN Len(sorted_clients) - RevenueTop
                                             ELSE 0]

\* ---------------------------------------------------------- specifications

\* The server starts against a store without tasks; tasks come from create_task.
Init ==
    /\ clock = 1
    /\ created = {}
    /\ time_log = [t \in TaskIds |-> EmptyLogText]
    /\ invoice_id = [t \in TaskIds |-> FALSE]
    /\ rate = [t \in TaskIds |-> 0]
    /\ task_rate = 0
    /\ NINJA_URL = TRUE
    /\ NINJA_TOKEN = TRUE
    /\ invoices = <<>>
    /\ payments = <<>>
    /\ calls = NoCalls
    /\ last = NoCall

StartTask == \E t \in created, o \in NetOutcomes : start_task(t, o[1], o[2])
StopTask == \E t \in created, o \in NetOutcomes : stop_task(t, o[1], o[2])
LogTime ==
    \E t \in created, n \in HoursNums, o \in NetOutcomes : log_time(t, n, o[1], o[2])
\* get_tasks with its default status 'all'.
GetTasks == \E g \in GetOutcomes : get_tasks("all", g)
GetTaskDetails == \E t \in created, g \in GetOutcomes : get_task_details(t, g)
GetProjectSummary == \E o \in TwoGetOutcomes : get_project_summary(o[1], o[2])
GetBillableHours == \E g \in GetOutcomes : get_billable_hours(g)
GetBusinessDashboard == \E g \in GetOutcomes : get_business_dashboard(g)

\* Spec follows one task from its creation without a rate (rate = 0).
CreateTask == \E p \in PutOutcomes : create_task("t1", 0, p)

Next ==
    \/ Tick
    \/ CreateTask
    \/ StartTask
    \/ StopTask
    \/ LogTime
    \/ GetTasks
    \/ GetTaskDetails
    \/ GetProjectSummary
    \/ GetBillableHours
    \/ GetBusinessDashboard

Spec == Init /\ [][Next]_vars

\* Stored logs of any content: every log of at most AnyMaxLen entries of
\* zero, one or two timestamps, texts that are no JSON, and the documented
\* examples.
AnyEntries ==
    {<<>>} \cup {<<s>> : s \in 1 .. AnyMaxTime}
           \cup {<<s, e>> : s \in 1 .. AnyMaxTime, e \in 1 .. AnyMaxTime}
AnyLogs == UNION {[1 .. k -> AnyEntries] : k \in 0 .. AnyMaxLen}
ExampleLogs == {<<<<1000>>>>, <<<<1000, 4600>>>>}
BadTexts == {<<>>, <<JUNK>>, <<LB, LB, Num(1)>>}
AnyTexts == {json_dumps(logs) : logs \in AnyLogs \cup ExampleLogs} \cup BadTexts
AnyClocks == (AnyMaxTime .. MaxClock) \cup {4600}

\* One task with any stored log, and one tool invocation on it.
InitLog ==
    /\ clock \in AnyClocks
    /\ created = {"t1"}
    /\ time_log \in {[t \in TaskIds |-> IF t = "t1" THEN x ELSE EmptyLogText] :
                        x \in AnyTexts}
    /\ invoice_id = [t \in TaskIds |-> FALSE]
    /\ rate = [t \in TaskIds |-> 0]
    /\ task_rate = 0
    /\ NINJA_URL = TRUE
    /\ NINJA_TOKEN = TRUE
    /\ invoices = <<>>
    /\ payments = <<>>
    /\ calls = NoCalls
    /\ last = NoCall

LogTwoHours ==
    \E t \in created, o \in NetOutcomes : log_time(t, TwoHours, o[1], o[2])

\* No tool has been invoked yet.
Fresh == last.op = "none"

NextLog ==
    \/ Fresh /\ StartTask
    \/ Fresh /\ StopTask
    \/ Fresh /\ LogTime
    \/ Fresh /\ LogTwoHours
    \/ Fresh /\ GetTasks
    \/ Fresh /\ GetTaskDetails
    \/ Fresh /\ GetProjectSummary
    \/ Fresh /\ GetBillableHours
    \/ Fresh /\ GetBusinessDashboard

SpecLog == InitLog /\ [][NextLog]_vars

\* Two tasks with short stored logs, and one report over them.
ReportTexts ==
    {json_dumps(logs) : logs \in {l \in AnyLogs : Len(l) <= 1} \cup ExampleLogs}
        \cup {json_dumps(<<<<1>>, <<1, 2>>>>)} \cup BadTexts

InitReport ==
    /\ clock \in AnyClocks
    /\ created = TaskIds
    /\ time_log \in [TaskIds -> ReportTexts]
    /\ invoice_id \in [TaskIds -> BOOLEAN]
    /\ rate = [t \in TaskIds |-> 0]
    /\ task_rate = 0
    /\ NINJA_URL = TRUE
    /\ NINJA_TOKEN = TRUE
    /\ invoices = <<>>
    /\ payments = <<>>
    /\ calls = NoCalls
    /\ last = NoCall

NextReport ==
    \/ Fresh /\ GetTasks
    \/ Fresh /\ GetProjectSummary
    \/ Fresh /\ GetBillableHours
    \/ Fresh /\ GetBusinessDashboard

SpecReport == InitReport /\ [][NextReport]_vars

\* Two tasks of one project with rates, invoiced or not, and one report over
\* them: the documented logs of one hour and of two hours, a running log,
\* the empty log and a text that is no JSON.
Rates == {0, 50}
BillingLogs ==
    {<<>>, <<<<1000>>>>, <<<<1000, 4600>>>>, <<<<1000, 8200>>>>}
BillingTexts == {json_dumps(logs) : logs \in BillingLogs} \cup {<<JUNK>>}
BillingClocks == {4600, 8200}

InitBilling ==
    /\ clock \in BillingClocks
    /\ created = TaskIds
    /\ time_log \in [TaskIds -> BillingTexts]
    /\ invoice_id \in [TaskIds -> BOOLEAN]
    /\ rate \in [TaskIds -> Rates]
    /\ task_rate \in Rates
    /\ NINJA_URL = TRUE
    /\ NINJA_TOKEN = TRUE
    /\ invoices = <<>>
    /\ payments = <<>>
    /\ calls = NoCalls
    /\ last = NoCall

\* The values the docstring of get_tasks gives for status.
Statuses == {"all", "running", "invoiced"}

GetTasksByStatus == \E status \in Statuses, g \in GetOutcomes : get_tasks(status, g)

NextBilling ==
    \/ Fresh /\ GetTasksByStatus
    \/ Fresh /\ GetTaskDetails
    \/ Fresh /\ GetProjectSummary
    \/ Fresh /\ GetBillableHours

SpecBilling == InitBilling /\ [][NextBilling]_vars

\* No tasks, and the configuration set.
NoTasks ==
    /\ created = {}
    /\ time_log = [t \in TaskIds |-> EmptyLogText]
    /\ invoice_id = [t \in TaskIds |-> FALSE]
    /\ rate = [t \in TaskIds |-> 0]
    /\ task_rate = 0

Configured == NINJA_URL = TRUE /\ NINJA_TOKEN = TRUE

\* The aging report runs on day Today over at most MaxInvoices invoices that
\* are due on the days around the bucket limits, carry no due_date or carry
\* one that is no date.
Today == 100
DaysOverdue == {-1, 0, 1, 30, 31, 60, 61, 90, 91}
Balances == {1, 2}
AnyDues ==
    {[kind |-> "date", day |-> Today - d] : d \in DaysOverdue}
        \cup {[kind |-> "none", day |-> 0], [kind |-> "bad", day |-> 0]}
AnyInvoices ==
    UNION {{[i \in 1 .. k |-> [number |-> i, due |-> d[i], balance |-> b[i]]] :
                d \in [1 .. k -> AnyDues], b \in [1 .. k -> Balances]} :
           k \in 0 .. MaxInvoices}

InitAging ==
    /\ clock = 1
    /\ NoTasks
    /\ Configured
    /\ invoices \in AnyInvoices
    /\ payments = <<>>
    /\ calls = NoCalls
    /\ last = NoCall

GetOverdueAging == \E g \in GetOutcomes : get_overdue_aging(Today, g)

NextAging == Fresh /\ GetOverdueAging

SpecAging == InitAging /\ [][NextAging]_vars

\* Lists of n items, n up to MaxItems, for the reports that show the first
\* items only: n tasks of one hour at rate 50, n invoices 10 days overdue
\* with balance 1 and n payments of 1 made on 01-01 by n clients.  Item k,
\* if k is not 0, differs: its task is invoiced, its invoice is 40 days
\* overdue with balance 2, its payment is of 3, made on 02-01 by client 1.
ManyIds == {TaskOrder[i] : i \in 1 .. MaxItems}

InitTrunc ==
    \E n \in 0 .. MaxItems : \E k \in 0 .. n :
        /\ clock = 4600
        /\ created = {TaskOrder[i] : i \in 1 .. n}
        /\ time_log = [t \in ManyIds |-> json_dumps(<<<<1000, 4600>>>>)]
        /\ invoice_id = [t \in ManyIds |-> k # 0 /\ t = TaskOrder[k]]
        /\ rate = [t \in ManyIds |-> 50]
        /\ task_rate = 0
        /\ Configured
        /\ invoices = [i \in 1 .. n |->
                           IF i = k THEN Invoice(i, "date", Today - 40, 2)
                           ELSE Invoice(i, "date", Today - 10, 1)]
        /\ payments = [i \in 1 .. n |->
                           IF i = k THEN Payment(201, 3, 1) ELSE Payment(101, 1, i)]
        /\ calls = NoCalls
        /\ last = NoCall

\* The arguments of the revenue reports: no date, or 01-02; limit 0, 1 or
\* the default 10.
DateArgs == {0, 102}
Limits == {0, 1, 10}

GetRevenueByClient ==
    \E start_date \in DateArgs, end_date \in DateArgs, limit \in Limits, g \in GetOutcomes :
        get_revenue_by_client(start_date, end_date, limit, g)

GetRevenueReport ==
    \E start_date \in DateArgs, end_date \in DateArgs, group_by \in {"client", "month"},
       g \in GetOutcomes :
        get_revenue_report(start_date, end_date, group_by, g)

NextTrunc ==
    \/ Fresh /\ GetBillableHours
    \/ Fresh /\ GetOverdueAging
    \/ Fresh /\ GetRevenueByClient
    \/ Fresh /\ GetRevenueReport

SpecTrunc == InitTrunc /\ [][NextTrunc]_vars

\* The server started with or without NINJA_URL and NINJA_TOKEN, against a
\* store of at most one task, one invoice and one payment, and one tool
\* invocation.
InitConfig ==
    /\ clock = 2
    /\ NINJA_URL \in BOOLEAN
    /\ NINJA_TOKEN \in BOOLEAN
    /\ created \in {{}, {"t1"}}
    /\ time_log \in {[t \in TaskIds |-> IF t = "t1" THEN x ELSE EmptyLogText] :
                        x \in {EmptyLogText, json_dumps(<<<<1>>>>), <<JUNK>>}}
    /\ invoice_id = [t \in TaskIds |-> FALSE]
    /\ rate = [t \in TaskIds |-> 0]
    /\ task_rate = 0
    /\ invoices \in {<<>>, <<Invoice(1, "date", Today - 10, 1)>>}
    /\ payments \in {<<>>, <<Payment(101, 1, 1)>>}
    /\ calls = NoCalls
    /\ last = NoCall

Ping == \E p \in PutOutcomes : ping(p)
Help == help
CreateSecondTask == \E p \in PutOutcomes : create_task("t2", 0, p)

NextConfig ==
    \/ Fresh /\ CreateSecondTask
    \/ Fresh /\ StartTask
    \/ Fresh /\ StopTask
    \/ Fresh /\ LogTime
    \/ Fresh /\ GetTasks
    \/ Fresh /\ GetTaskDetails
    \/ Fresh /\ GetProjectSummary
    \/ Fresh /\ GetBillableHours
    \/ Fresh /\ GetBusinessDashboard
    \/ Fresh /\ GetOverdueAging
    \/ Fresh /\ GetRevenueByClient
    \/ Fresh /\ GetRevenueReport
    \/ Fresh /\ Ping
    \/ Fresh /\ Help

SpecConfig == InitConfig /\ [][NextConfig]_vars

\* Two invocations of start_task, stop_task or log_time on one task, stopped
\* or running, whose GETs and PUTs interleave in any order.
InitRace ==
    /\ clock = 1
    /\ created = {"t1"}
    /\ time_log \in {[t \in TaskIds |-> IF t = "t1" THEN x ELSE EmptyLogText] :
                        x \in {EmptyLogText, json_dumps(<<<<1>>>>)}}
    /\ invoice_id = [t \in TaskIds |-> FALSE]
    /\ rate = [t \in TaskIds |-> 0]
    /\ task_rate = 0
    /\ Configured
    /\ invoices = <<>>
    /\ payments = <<>>
    /\ calls = NoCalls
    /\ last = NoCall

Read ==
    \E i \in Invocations, op \in Mutations, g \in GetOutcomes :
        \E n \in IF op = "log_time" THEN HoursNums ELSE {0} :
            ReadStep(i, op, "t1", n, g)

Write == \E i \in Invocations, p \in PutOutcomes : WriteStep(i, p)

RaceTick == Tick /\ UNCHANGED calls

NextRace ==
    \/ RaceTick
    \/ Read
    \/ Write

SpecRace == InitRace /\ [][NextRace]_vars

\* Two invocations that proceed request by request, at one time, on a store
\* with one task, stopped or running, and one invoice of balance 2 (number 3
\* names none).
Amounts == {-1, 2, 3}
InvoiceNumbers == {1, 3}
StepTools == {"get_tasks", "get_business_dashboard", "help"}

InitSteps ==
    /\ clock = 2
    /\ created = {"t1"}
    /\ time_log \in {[t \in TaskIds |-> IF t = "t1" THEN x ELSE EmptyLogText] :
                        x \in {EmptyLogText, json_dumps(<<<<1>>>>)}}
    /\ invoice_id = [t \in TaskIds |-> FALSE]
    /\ rate = [t \in TaskIds |-> 0]
    /\ task_rate = 0
    /\ Configured
    /\ invoices = <<PayableInvoice(1, 7, 2)>>
    /\ payments = <<>>
    /\ calls = NoCalls
    /\ last = NoCall

InvokeMutation ==
    \E i \in Invocations, op \in Mutations :
        Invoke(i, op, "t1", IF op = "log_time" THEN 2 ELSE 0, <<>>)
InvokePayment ==
    \E i \in Invocations, number \in InvoiceNumbers, amount \in Amounts :
        Invoke(i, "apply_payment_to_invoice", "none", 0, <<number, amount>>)
InvokeOther == \E i \in Invocations, op \in StepTools : Invoke(i, op, "none", 0, <<>>)
SendNext == \E i \in Invocations : Send(i)
Response == \E i \in Invocations, o \in GetOutcomes \cup PutOutcomes : Respond(i, o)

NextSteps ==
    \/ InvokeMutation
    \/ InvokePayment
    \/ InvokeOther
    \/ SendNext
    \/ Response

SpecSteps == InitSteps /\ [][NextSteps]_vars

\* The tool's code runs on, and every request is answered or fails.
SpecStepsFair ==
    /\ SpecSteps
    /\ \A i \in Invocations : WF_vars(Send(i))
    /\ \A i \in Invocations :
           WF_vars(\E o \in GetOutcomes \cup PutOutcomes : Respond(i, o))

\* One task whose stored log is any log of at most AnyMaxLen entries of
\* zero, one or two integers (negative, zero and positive), and one report
\* over it at one query time.
ElapsedTimes == {-1, 0, 1, 2}
ElapsedEntries ==
    {<<>>} \cup {<<s>> : s \in ElapsedTimes}
           \cup {<<s, e>> : s \in ElapsedTimes, e \in ElapsedTimes}
ElapsedLogs == UNION {[1 .. k -> ElapsedEntries] : k \in 0 .. AnyMaxLen}

InitElapsed ==
    /\ clock \in {2, 3}
    /\ created = {"t1"}
    /\ time_log \in {[t \in TaskIds |-> IF t = "t1" THEN json_dumps(logs) ELSE EmptyLogText] :
                        logs \in ElapsedLogs}
    /\ invoice_id = [t \in TaskIds |-> FALSE]
    /\ rate = [t \in TaskIds |-> 0]
    /\ task_rate = 0
    /\ Configured
    /\ invoices = <<>>
    /\ payments = <<>>
    /\ calls = NoCalls
    /\ last = NoCall

NextElapsed ==
    \/ Fresh /\ GetTasks
    \/ Fresh /\ GetTaskDetails
    \/ Fresh /\ GetProjectSummary
    \/ Fresh /\ GetBillableHours

SpecElapsed == InitElapsed /\ [][NextElapsed]_vars

\* One task from its creation, with log_time of hours >= 0 only (none, one
\* second, two hours), and the queries of get_tasks in between.
NonNegHours == {0, 2, TwoHours}

LogTimeNonNeg ==
    \E t \in created, n \in NonNegHours, o \in NetOutcomes : log_time(t, n, o[1], o[2])

NextNonNeg ==
    \/ Tick
    \/ CreateTask
    \/ StartTask
    \/ StopTask
    \/ LogTimeNonNeg
    \/ GetTasks

SpecNonNeg == Init /\ [][NextNonNeg]_vars

\* ------------------------------------------------------------------ claims

\* The log a text holds, for texts that parse.
Parses(text) == json_loads(text).ok
Parsed(text) == json_loads(text).val

\* A session with only a start is open, one with a start and an end is closed.
IsOpen(session) == Len(session) = 1
IsClosed(session) == Len(session) = 2

\* C1: start_task on a task whose stored log is running (its last session is
\* open) answers "already running", issues no PUT and leaves the stored log
\* as it was read.
C1_StartOnRunning ==
    (/\ last.op = "start_task"
     /\ last.got
     /\ Parses(last.read)
     /\ Parsed(last.read) # <<>>
     /\ IsOpen(Last(Parsed(last.read))))
    => (/\ last.result = "already_running"
        /\ ~last.put
        /\ time_log[last.task] = last.read)

\* start_task has answered "already running" on a log of a closed session
\* followed by an open one.
C1_Witness ==
    /\ last.op = "start_task"
    /\ last.result = "already_running"
    /\ last.read = json_dumps(<<<<1, 2>>, <<2>>>>)

\* C2: stop_task on a task whose stored log is not running (empty, or its
\* last session closed) answers "not currently running", issues no PUT and
\* leaves the stored log as it was read.
C2_StopOnStopped ==
    (/\ last.op = "stop_task"
     /\ last.got
     /\ Parses(last.read)
     /\ \/ Parsed(last.read) = <<>>
        \/ IsClosed(Last(Parsed(last.read))))
    => (/\ last.result = "not_running"
        /\ ~last.put
        /\ time_log[last.task] = last.read)

\* stop_task has answered "not currently running" on a log whose last session
\* is closed.
C2_Witness ==
    /\ last.op = "stop_task"
    /\ last.result = "not_running"
    /\ last.read = json_dumps(<<<<1>>, <<1, 2>>>>)

\* C3: on a task created by create_task, a successful start_task at now1
\* followed by a successful stop_task at now2 > now1 leaves the stored log
\* [[now1, now2]], and stop_task reports the duration now2 - now1: the start
\* on the created (empty) log stores [[now1]], and the stop that reads
\* [[now1]] at now2 stores [[now1, now2]].
C3_StartThenStop ==
    /\ (/\ last.op = "start_task"
         /\ last.result = "started"
         /\ last.read = EmptyLogText)
        => (/\ Parses(time_log[last.task])
            /\ Parsed(time_log[last.task]) = <<<<clock>>>>)
    /\ \A now1 \in 1 .. MaxClock :
           (/\ last.op = "stop_task"
            /\ last.result = "stopped"
            /\ last.read = json_dumps(<<<<now1>>>>)
            /\ clock > now1)
           => (/\ Parses(time_log[last.task])
               /\ Parsed(time_log[last.task]) = <<<<now1, clock>>>>
               /\ last.duration = clock - now1)

\* start_task at 1 and stop_task at 2 have both succeeded on the created task.
C3_Witness ==
    /\ last.op = "stop_task"
    /\ last.result = "stopped"
    /\ last.read = json_dumps(<<<<1>>>>)
    /\ clock = 2
    /\ time_log["t1"] = json_dumps(<<<<1, 2>>>>)
    /\ last.duration = 1

\* The entries of a log are sessions: one or two timestamps each.
WellFormed(logs) == \A i \in 1 .. Len(logs) : IsOpen(logs[i]) \/ IsClosed(logs[i])

\* The last session of the log a text holds is open.
LastOpenIn(text) ==
    /\ Parses(text)
    /\ Parsed(text) # <<>>
    /\ IsOpen(Last(Parsed(text)))

\* The last session of the stored log of task t is open.
LastSessionOpen(t) == LastOpenIn(time_log[t])

\* The number of listed tasks, from the i-th on, whose last session is open.
RECURSIVE CountLastOpen(_)
CountLastOpen(i) ==
    IF i > Len(Listed) THEN 0
    ELSE (IF LastSessionOpen(Listed[i]) THEN 1 ELSE 0) + CountLastOpen(i + 1)

\* C4: for every stored log of sessions, the running status each tool derives
\* is true iff the last session of the log is open: the RUNNING flag of
\* get_tasks, get_task_details and get_project_summary, the check of
\* start_task and stop_task, and the count of get_business_dashboard.
C4_RunningIffLastOpen ==
    (\A t \in created : Parses(time_log[t]) /\ WellFormed(Parsed(time_log[t])))
    => /\ (/\ last.op \in {"get_tasks", "get_task_details", "get_project_summary"}
           /\ last.result = "report")
          => \A i \in 1 .. Len(last.rows) :
                 last.rows[i].running = LastSessionOpen(last.rows[i].task)
       /\ (last.op = "start_task" /\ last.got)
          => (last.result = "already_running") = LastOpenIn(last.read)
       /\ (last.op = "stop_task" /\ last.got)
          => (last.result = "not_running") = ~LastOpenIn(last.read)
       /\ (last.op = "get_business_dashboard" /\ last.result = "report")
          => last.running_tasks = CountLastOpen(1)

\* sum of (end - start) over the sessions 1 .. n of logs.
RECURSIVE SumClosed(_, _)
SumClosed(logs, n) ==
    IF n = 0 THEN 0 ELSE SumClosed(logs, n - 1) + (logs[n][2] - logs[n][1])

\* Closed sessions followed by one open session.
RunningShape(logs) ==
    /\ logs # <<>>
    /\ \A i \in 1 .. Len(logs) - 1 : IsClosed(logs[i])
    /\ IsOpen(Last(logs))

\* C5: for a log [(s1,e1), ..., (sn, absent)] queried at now, get_tasks and
\* get_task_details compute sum(ei - si) + (now - sn) elapsed seconds and
\* report the task as running.
C5_ElapsedOfRunning ==
    (/\ last.op \in {"get_tasks", "get_task_details"}
     /\ last.result = "report"
     /\ Parses(time_log["t1"])
     /\ RunningShape(Parsed(time_log["t1"])))
    => LET logs == Parsed(time_log["t1"]) IN
       /\ Len(last.rows) = 1
       /\ last.rows[1].task = "t1"
       /\ last.rows[1].running
       /\ last.rows[1].seconds
              = SumClosed(logs, Len(logs) - 1) + (clock - Last(logs)[1])

\* get_tasks has reported the log [[1000]] at 4600: 3600 seconds, running.
C5_Witness ==
    /\ last.op = "get_tasks"
    /\ time_log["t1"] = json_dumps(<<<<1000>>>>)
    /\ clock = 4600
    /\ last.rows[1].seconds = 3600
    /\ last.rows[1].running

\* d is the rational n * 3600 / HoursDen cut to an integer toward zero.
Truncated(d, n) ==
    LET x == n * SecondsPerHour IN
    IF x >= 0
    THEN d >= 0 /\ d * HoursDen <= x /\ x < (d + 1) * HoursDen
    ELSE d <= 0 /\ d * HoursDen >= x /\ x > (d - 1) * HoursDen

\* The write of log_time is the log it read (the empty log when the text
\* does not parse) with one closed session appended whose end is now; the
\* store takes it on a 200.
LogTimeAppendsOne ==
    LET old == IF Parses(last.read) THEN Parsed(last.read) ELSE <<>>
        new == Parsed(last.payload)
    IN /\ last.put
       /\ Parses(last.payload)
       /\ Len(new) = Len(old) + 1
       /\ SubSeq(new, 1, Len(old)) = old
       /\ IsClosed(Last(new))
       /\ Last(new)[2] = clock
       /\ time_log[last.task]
              = IF last.result = "logged" THEN last.payload ELSE last.read

\* The start of the session log_time wrote.
LoggedStart == Last(Parsed(last.payload))[1]

\* C6 as stated: log_time with hours = h at T appends exactly one closed
\* session (T - h * 3600, T) to the log it read, running or not.
C6_AppendsExactSession ==
    (last.op = "log_time" /\ last.got)
    => /\ LogTimeAppendsOne
       /\ (clock - LoggedStart) * HoursDen = last.hours * SecondsPerHour

\* C6 as amended: log_time with hours = h at T appends exactly one closed
\* session (T - int(h * 3600), T), int cutting toward zero, to the log it
\* read, running or not.
C6_AppendsTruncatedSession ==
    (last.op = "log_time" /\ last.got)
    => /\ LogTimeAppendsOne
       /\ Truncated(clock - LoggedStart, last.hours)

\* log_time(hours = 2) has appended (T - 7200, T) behind an open session.
C6_Witness ==
    /\ last.op = "log_time"
    /\ last.result = "logged"
    /\ last.hours = TwoHours
    /\ Parses(last.read)
    /\ RunningShape(Parsed(last.read))
    /\ Parsed(time_log["t1"]) = Append(Parsed(last.read), <<clock - 7200, clock>>)

\* C7: after any sequence of start_task, stop_task and log_time on a created
\* task, at most the last session of the stored log is open: every earlier
\* session is closed.
C7_OnlyLastOpen ==
    \A t \in created :
        /\ Parses(time_log[t])
        /\ \A i \in 1 .. Len(Parsed(time_log[t])) - 1 : IsClosed(Parsed(time_log[t])[i])

\* C8: after any sequence of start_task, stop_task and log_time (any hours,
\* non-decreasing clock), every closed session [start, end] of the stored
\* log has end >= start.
C8_EndNotBeforeStart ==
    \A t \in created :
        \A i \in 1 .. Len(Parsed(time_log[t])) :
            IsClosed(Parsed(time_log[t])[i])
            => Parsed(time_log[t])[i][2] >= Parsed(time_log[t])[i][1]

TimerReports ==
    {"get_tasks", "get_task_details", "get_project_summary",
     "get_billable_hours", "get_business_dashboard"}

\* C9: a stored log that cannot be parsed yields 0 elapsed seconds and
\* running = false in get_tasks, get_task_details, get_project_summary,
\* get_billable_hours and get_business_dashboard, which still return their
\* report.
C9_UnparsableIsZero ==
    (/\ time_log["t1"] \in BadTexts
     /\ last.op \in TimerReports
     /\ last.got)
    => /\ last.result = "report"
       /\ last.total_seconds = 0
       /\ last.running_tasks = 0
       /\ \A i \in 1 .. Len(last.rows) :
              last.rows[i].seconds = 0 /\ ~last.rows[i].running

\* get_tasks has listed a task whose stored log is no JSON.
C9_Witness ==
    /\ time_log["t1"] = <<JUNK>>
    /\ last.op = "get_tasks"
    /\ last.result = "report"
    /\ Len(last.rows) = 1
    /\ last.rows[1].seconds = 0
    /\ ~last.rows[1].running

\* The row of task t among rows, or no row.
RowsOf(rows, t) == SelectSeq(rows, LAMBDA r : r.task = t)

\* C10: in get_tasks, get_billable_hours, get_project_summary and
\* get_business_dashboard, when the log of one task fails to parse and the
\* log of the other is valid, the report is returned, the failing task adds
\* zero hours and zero running count, and the other task adds what it adds
\* when it is the only task.
C10_PartialAggregation ==
    \A bad \in TaskIds : \A good \in TaskIds \ {bad} :
        (/\ time_log[bad] \in BadTexts
         /\ Parses(time_log[good])
         /\ last.op \in TimerReports \ {"get_task_details"}
         /\ last.got)
        => /\ last.result = "report"
           /\ \A i \in 1 .. Len(last.rows) :
                  last.rows[i].task = bad
                  => last.rows[i].seconds = 0 /\ ~last.rows[i].running
           /\ last.op = "get_tasks"
              => /\ Len(last.rows) = 2
                 /\ RowsOf(last.rows, good) = <<GetTasksRow(good)>>
           /\ last.op = "get_project_summary"
              => LET alone == ProjectSummaryTasks(<<good>>, 1, ReportZero) IN
                 /\ Len(last.rows) = 2
                 /\ RowsOf(last.rows, good) = alone.rows
                 /\ last.total_seconds = alone.total_seconds
                 /\ last.running_tasks = alone.running_tasks
           /\ last.op = "get_billable_hours"
              => LET alone == BillableTasks(<<good>>, 1, ReportZero) IN
                 /\ last.rows = alone.rows
                 /\ last.total_seconds = alone.total_seconds
           /\ last.op = "get_business_dashboard"
              => last.running_tasks = DashboardTasks(<<good>>, 1, 0)

\* get_project_summary has reported a project whose first task holds no JSON
\* and whose second task has run for one second.
C10_Witness ==
    /\ time_log["t1"] = <<JUNK>>
    /\ time_log["t2"] = json_dumps(<<<<1>>>>)
    /\ clock = 2
    /\ last.op = "get_project_summary"
    /\ last.result = "report"
    /\ Len(last.rows) = 2
    /\ last.total_seconds = 1
    /\ last.running_tasks = 1

\* The results that are an error text: "Error: ..." of the except branch and
\* "Failed: <status> - <body>" of a PUT or POST that is not answered 200.
ErrorTexts == {"error", "failed"}

\* The tool met a stored time_log that does not parse.
BadLogRead ==
    /\ last.got
    /\ IF last.op \in {"start_task", "stop_task", "log_time", "get_task_details"}
       THEN ~Parses(last.read)
       ELSE \E i \in 1 .. Len(Listed) : ~Parses(time_log[Listed[i]])

\* The invocation returned a text: no exception left the tool.
ReturnedText == last.result \notin {"none", "exception"}

ResolvedRate(t) == IF rate[t] # 0 THEN rate[t] ELSE task_rate

\* The tasks the rows list.
RowTasks(rows) == {rows[i].task : i \in 1 .. Len(rows)}

\* Task t1 is invoiced with two hours elapsed, task t2 is not invoiced with
\* one hour elapsed, and both have the rate 50.
TwoTasksAtFifty ==
    /\ time_log["t1"] = json_dumps(<<<<1000, 8200>>>>)
    /\ invoice_id["t1"]
    /\ time_log["t2"] = json_dumps(<<<<1000, 4600>>>>)
    /\ ~invoice_id["t2"]
    /\ \A t \in TaskIds : rate[t] = 50

\* C12: get_billable_hours lists and totals no task that has an invoice_id,
\* get_tasks and get_project_summary list every task; for two tasks of rate
\* 50, one invoiced with 2h and one not invoiced with 1h, the unbilled
\* total is 1h and 50, the general total 3h and 150.
C12_InvoicedExcluded ==
    /\ (last.op = "get_billable_hours" /\ last.result = "report")
       => /\ \A t \in RowTasks(last.rows) : ~invoice_id[t]
          /\ TwoTasksAtFifty
             => /\ last.total_seconds = 1 * SecondsPerHour
                /\ last.total_billable = 50 * SecondsPerHour
    /\ (last.op \in {"get_tasks", "get_project_summary"} /\ last.result = "report")
       => RowTasks(last.rows) = created
    /\ (last.op = "get_project_summary" /\ last.result = "report" /\ TwoTasksAtFifty)
       => /\ last.total_seconds = 3 * SecondsPerHour
          /\ last.total_billable = 150 * SecondsPerHour

\* The sums of the amounts and of the seconds of the rows 1 .. n, and the
\* number of running rows among them.
RECURSIVE SumBillable(_, _)
SumBillable(rows, n) ==
    IF n = 0 THEN 0 ELSE SumBillable(rows, n - 1) + rows[n].billable

RECURSIVE SumSeconds(_, _)
SumSeconds(rows, n) ==
    IF n = 0 THEN 0 ELSE SumSeconds(rows, n - 1) + rows[n].seconds

RECURSIVE CountRunning(_, _)
CountRunning(rows, n) ==
    IF n = 0 THEN 0
    ELSE CountRunning(rows, n - 1) + (IF rows[n].running THEN 1 ELSE 0)

\* C13: in get_project_summary and get_billable_hours the total billable
\* amount is the sum over the listed tasks of elapsed hours times the task's
\* resolved rate (its own, or the project's when it has none), and the total
\* hours and the running count are taken over the same tasks.
C13_TotalIsSumOfTasks ==
    (last.op \in {"get_project_summary", "get_billable_hours"} /\ last.result = "report")
    => LET n == Len(last.rows) IN
       /\ \A i \in 1 .. n :
              ~last.rows[i].failed
              => last.rows[i].billable
                     = last.rows[i].seconds * ResolvedRate(last.rows[i].task)
       /\ last.total_billable = SumBillable(last.rows, n)
       /\ last.total_seconds = SumSeconds(last.rows, n)
       /\ last.op = "get_project_summary"
          => last.running_tasks = CountRunning(last.rows, n)

\* C14: get_task_details reports elapsed_seconds / 3600 * rate as the
\* billable amount of the task; for the log [[1000, 4600]] at rate 50 it
\* reports 3600 s (1.0 h), 50.00 and not running.
C14_BillableOfOneTask ==
    (last.op = "get_task_details" /\ last.result = "report")
    => /\ last.total_billable = last.total_seconds * rate[last.task]
       /\ (last.read = json_dumps(<<<<1000, 4600>>>>) /\ rate[last.task] = 50)
          => /\ last.total_seconds = 3600
             /\ last.total_billable = 50 * SecondsPerHour
             /\ ~last.rows[1].running

\* get_task_details has reported the log [[1000, 4600]] at rate 50, queried
\* at 8200.
C14_Witness ==
    /\ last.op = "get_task_details"
    /\ last.result = "report"
    /\ last.read = json_dumps(<<<<1000, 4600>>>>)
    /\ rate[last.task] = 50
    /\ clock = 8200
    /\ last.total_seconds = 3600
    /\ last.total_billable = 50 * 3600

\* The buckets whose shown entries hold invoice number i.
BucketsOf(i) ==
    {b \in 1 .. 4 :
        \E j \in 1 .. Len(last.buckets[b].shown) : last.buckets[b].shown[j].number = i}

\* C19: get_overdue_aging puts every invoice with a due date and
\* days_overdue >= 1 in exactly one of the buckets 1-30, 31-60, 61-90 and
\* 90+, by its days overdue, passes over the invoices that are not overdue,
\* and reports as total overdue the sum of the four bucket totals.
C19_AgingBuckets ==
    (last.op = "get_overdue_aging" /\ last.result = "report")
    => /\ \A i \in 1 .. Len(invoices) :
              LET days == last.today - invoices[i].due.day IN
              IF invoices[i].due.kind = "date" /\ days >= 1
              THEN BucketsOf(i) = {IF days \in 1 .. 30 THEN 1
                                   ELSE IF days \in 31 .. 60 THEN 2
                                   ELSE IF days \in 61 .. 90 THEN 3
                                   ELSE 4}
              ELSE BucketsOf(i) = {}
       /\ \A b \in 1 .. 4 :
              /\ last.buckets[b].count = Len(last.buckets[b].shown)
              /\ last.buckets[b].total
                     = SumBalance(last.buckets[b].shown, Len(last.buckets[b].shown))
       /\ last.total = last.buckets[1].total + last.buckets[2].total
                           + last.buckets[3].total + last.buckets[4].total

\* The report has put an invoice 30 days overdue in the first bucket and one
\* 31 days overdue in the second.
C19_Witness ==
    /\ last.op = "get_overdue_aging"
    /\ last.result = "report"
    /\ Len(invoices) = 2
    /\ last.today - invoices[1].due.day = 30
    /\ last.today - invoices[2].due.day = 31
    /\ invoices[1].due.kind = "date" /\ invoices[2].due.kind = "date"
    /\ BucketsOf(1) = {1}
    /\ BucketsOf(2) = {2}
    /\ last.total = invoices[1].balance + invoices[2].balance

\* The balances and the number of the invoices 1 .. n that are lo to hi days
\* overdue (hi = 0: lo days or more).
OverdueWithin(i, lo, hi) ==
    LET days == last.today - invoices[i].due.day IN
    /\ invoices[i].due.kind = "date"
    /\ days >= lo
    /\ hi = 0 \/ days <= hi

RECURSIVE OverdueBalance(_, _, _)
OverdueBalance(n, lo, hi) ==
    IF n = 0 THEN 0
    ELSE OverdueBalance(n - 1, lo, hi)
         + (IF OverdueWithin(n, lo, hi) THEN invoices[n].balance ELSE 0)

RECURSIVE OverdueCount(_, _, _)
OverdueCount(n, lo, hi) ==
    IF n = 0 THEN 0
    ELSE OverdueCount(n - 1, lo, hi) + (IF OverdueWithin(n, lo, hi) THEN 1 ELSE 0)

\* The amounts of the payments 1 .. n dated from start_date to end_date (0: no
\* limit), of all of them or of those that have a client.
RECURSIVE PaidInRange(_, _, _, _)
PaidInRange(n, start_date, end_date, withClient) ==
    IF n = 0 THEN 0
    ELSE PaidInRange(n - 1, start_date, end_date, withClient)
         + (IF /\ start_date = 0 \/ payments[n].date >= start_date
               /\ end_date = 0 \/ payments[n].date <= end_date
               /\ withClient => payments[n].client # 0
            THEN payments[n].amount ELSE 0)

BucketLow == <<1, 31, 61, 91>>
BucketHigh == <<30, 60, 90, 0>>

\* C15: the totals of the reports that show only the first items of a list
\* are taken over the full filtered list: get_billable_hours (10 task lines)
\* over every task without invoice_id that has time, get_overdue_aging (5
\* entries a bucket) over every overdue invoice of the bucket,
\* get_revenue_by_client (limit clients) over every dated-in-range payment of
\* a client, get_revenue_report (15 clients) over every payment in the range.
C15_TotalsOverFullSet ==
    /\ (last.op = "get_billable_hours" /\ last.result = "report")
       => /\ RowTasks(last.rows)
                 = {t \in created :
                        ~invoice_id[t] /\ BillableSeconds(time_log[t], clock) > 0}
          /\ last.total_seconds = SumSeconds(last.rows, Len(last.rows))
          /\ last.total_billable = SumBillable(last.rows, Len(last.rows))
          /\ Len(last.shown) <= BillableTop
          /\ Len(last.shown) + last.more = Len(last.rows)
    /\ (last.op = "get_overdue_aging" /\ last.result = "report")
       => /\ \A b \in 1 .. 4 :
                 /\ last.buckets[b].total
                        = OverdueBalance(Len(invoices), BucketLow[b], BucketHigh[b])
                 /\ last.buckets[b].count
                        = OverdueCount(Len(invoices), BucketLow[b], BucketHigh[b])
                 /\ Len(last.buckets[b].shown) <= AgingTop
                 /\ Len(last.buckets[b].shown) + last.buckets[b].more
                        = last.buckets[b].count
          /\ last.total = OverdueBalance(Len(invoices), 1, 0)
    /\ (last.op = "get_revenue_by_client" /\ last.result = "report")
       => /\ last.total = PaidInRange(Len(payments), last.args[1], last.args[2], TRUE)
          /\ Len(last.shown) <= last.args[3]
    /\ (last.op = "get_revenue_report" /\ last.result = "report")
       => /\ last.total = PaidInRange(Len(payments), last.args[1], last.args[2], FALSE)
          /\ last.count = Len(Filtered(payments, last.args[1], last.args[2]))
          /\ last.args[3] = "client"
             => /\ Len(last.shown) <= RevenueTop
                /\ last.more > 0 <=> Len(last.shown) = RevenueTop
                                      /\ SumTotal(last.shown, RevenueTop) < last.total

\* get_revenue_report has shown 15 of 16 clients and a total that exceeds
\* the sum of the 15 amounts it shows.
C15_Witness ==
    /\ last.op = "get_revenue_report"
    /\ last.result = "report"
    /\ Len(payments) = 16
    /\ Len(last.shown) = RevenueTop
    /\ last.more = 1
    /\ last.total = 16
    /\ SumTotal(last.shown, Len(last.shown)) = 15

\* The log a mutation read: the empty log when the text does not parse.
ReadLog == IF Parses(last.read) THEN Parsed(last.read) ELSE <<>>

\* Every well-formed log of the bounded domain is what json_loads reads from
\* its json_dumps.
RoundTripOfLogs ==
    \A logs \in AnyLogs \cup ExampleLogs :
        WellFormed(logs)
        => /\ json_loads(json_dumps(logs)).ok
           /\ json_loads(json_dumps(logs)).val = logs

\* C16: parsing the text that start_task, stop_task and log_time write gives
\* back the log they serialized, and parse(serialize(log)) = log for every
\* well-formed log (a sequence of 1- or 2-element integer arrays).
C16_RoundTrip ==
    /\ RoundTripOfLogs
    /\ \A t \in created :
           (Parses(time_log[t]) /\ WellFormed(Parsed(time_log[t])))
           => /\ json_dumps(Parsed(time_log[t])) = time_log[t]
              /\ Parsed(json_dumps(Parsed(time_log[t]))) = Parsed(time_log[t])
    /\ (last.put /\ last.op \in {"start_task", "stop_task", "log_time"})
       => /\ Parses(last.payload)
          /\ last.op = "start_task"
             => Parsed(last.payload) = Append(ReadLog, <<clock>>)
          /\ last.op = "log_time"
             => /\ SubSeq(Parsed(last.payload), 1, Len(ReadLog)) = ReadLog
                /\ Len(Parsed(last.payload)) = Len(ReadLog) + 1
                /\ Last(Parsed(last.payload))[2] = clock
          /\ last.op = "stop_task"
             => Parsed(last.payload)
                    = SubSeq(ReadLog, 1, Len(ReadLog) - 1)
                      \o <<<<Last(ReadLog)[1], clock>>>>

\* stop_task has written [[1, 2], [2, now]] on the log [[1, 2], [2]], and the
\* store holds the text that parses to it.
C16_Witness ==
    /\ last.op = "stop_task"
    /\ last.result = "stopped"
    /\ Parses(last.read)
    /\ Parsed(last.read) = <<<<1, 2>>, <<2>>>>
    /\ Parses(time_log["t1"])
    /\ Parsed(time_log["t1"]) = <<<<1, 2>>, <<2, clock>>>>

\* C17: get_tasks lists, of the tasks it fetched, the running ones for
\* status 'running', the invoiced ones for status 'invoiced' and all of them
\* for status 'all'.
C17_StatusFilters ==
    (last.op = "get_tasks" /\ last.result = "report")
    => RowTasks(last.rows)
           = {t \in created :
                  \/ last.args[1] = "all"
                  \/ last.args[1] = "running" /\ LastSessionOpen(t)
                  \/ last.args[1] = "invoiced" /\ invoice_id[t]}

\* NINJA_URL or NINJA_TOKEN is absent from the environment.
ConfigMissing == ~NINJA_URL \/ ~NINJA_TOKEN

\* The invocation ended with an error text on its first request: it got no
\* response to work on and changed nothing.
FailedAtFirstRequest ==
    /\ last.result \in ErrorTexts
    /\ ~last.got
    /\ last.put => last.op = "create_task"
    /\ last.op = "create_task" => last.task \notin created

Succeeded(i) == calls[i].result \in {"started", "stopped", "logged"}

\* Both invocations succeeded on the same task from the same log: each read
\* before the other wrote, since a write changes the log.
Overlapped ==
    /\ Succeeded(1)
    /\ Succeeded(2)
    /\ calls[1].task = calls[2].task
    /\ calls[1].read = calls[2].read

\* C20: two invocations of start_task, stop_task or log_time on the same task
\* are not coordinated: when their read-modify-write cycles overlap and both
\* report success, the stored time log is the log one of them wrote, that
\* is the log both read with one update applied and not both.
C20_LostUpdate ==
    Overlapped =>
        /\ time_log[calls[1].task] \in {calls[1].payload, calls[2].payload}
        /\ Len(LoadLogs(time_log[calls[1].task]))
               <= Len(LoadLogs(calls[1].read)) + 1

\* start_task and log_time overlapped on a stopped task and both reported
\* success; the stored log is the one log_time wrote, and the session
\* start_task reported as started is not in it.
C20_Witness ==
    /\ Overlapped
    /\ calls[1].op = "start_task"
    /\ calls[2].op = "log_time"
    /\ time_log[calls[1].task] = calls[2].payload
    /\ time_log[calls[1].task] # calls[1].payload
    /\ ~LastEntryOpen(LoadLogs(time_log[calls[1].task]))
    /\ Len(LoadLogs(time_log[calls[1].task])) = Len(LoadLogs(calls[1].read)) + 1

\* Invocation i issues its GET in this step.
Reads(i) == ~calls[i].got /\ calls'[i].got

\* Invocation i issues its PUT in this step.
Writes(i) == ~calls[i].put /\ calls'[i].put

\* The value invocation i sends is the whole log computed from the log it
\* read, at some time up to now.
PayloadFromOwnRead(i) ==
    \E now \in 1 .. clock :
        calls[i].payload =
            json_dumps(NewLogsAt(calls[i].op, LoadLogs(calls[i].read),
                                 calls[i].hours, now))

\* C21: in every start_task, stop_task and log_time invocation the PUT is
\* preceded, in the same invocation, by a GET that read the time log the
\* store held at that moment; the value written is the whole log computed
\* from the value this invocation read, and it replaces the stored log.  No
\* log value of another invocation is used.
C21_ReadBeforeWrite ==
    [][\A i \in Invocations :
           /\ Reads(i) => calls'[i].read = time_log[calls'[i].task]
           /\ Writes(i) =>
                  /\ calls[i].got
                  /\ calls'[i].read = calls[i].read
                  /\ calls'[i].payload = calls[i].payload
                  /\ PayloadFromOwnRead(i)
                  /\ Succeeded(i)' => time_log'[calls[i].task] = calls[i].payload]_vars

\* The second invocation started after the first had written: it read the
\* log the first wrote, not the log the first read, and wrote that log with
\* its own session added.
C21_Witness ==
    /\ Succeeded(1)
    /\ Succeeded(2)
    /\ calls[2].read = calls[1].payload
    /\ calls[2].read # calls[1].read
    /\ time_log[calls[2].task] = calls[2].payload
    /\ Len(LoadLogs(calls[2].payload)) = Len(LoadLogs(calls[1].read)) + 2

\* The invocation has returned its text.
Returned(i) == calls[i].result \notin {"none", "pending"}

\* The k-th request of invocation i failed: it raised or was answered with
\* a status that is no success.
FailedRequest(i, k) ==
    calls[i].requests[k].outcome \notin {"ok", "200", "waiting"}

\* C22: no tool retries.  Within one invocation every upstream request is
\* issued at most once, and a request that failed (an exception or a status
\* that is no success) is the last one: the invocation has returned its
\* error text and issues nothing more.  start_task, stop_task and log_time
\* issue one GET and after it at most one PUT.
C22_NoRetries ==
    \A i \in Invocations :
        LET rs == calls[i].requests IN
        /\ \A j \in 1 .. Len(rs) : \A k \in 1 .. Len(rs) :
               j < k => <<rs[j].method, rs[j].resource>> # <<rs[k].method, rs[k].resource>>
        /\ \A k \in 1 .. Len(rs) :
               FailedRequest(i, k)
               => /\ k = Len(rs)
                  /\ calls[i].result \in ErrorTexts
        /\ calls[i].op \in Mutations
           => /\ Len(rs) <= 2
              /\ Len(rs) >= 1 => rs[1].method = "GET"
              /\ Len(rs) = 2 => rs[2].method = "PUT" /\ rs[1].outcome = "ok"

\* start_task has returned "Failed" after its GET and one rejected PUT, and
\* get_business_dashboard has returned its error after the third of its five
\* GETs raised.
C22_Witness ==
    /\ calls[1].op = "start_task"
    /\ Len(calls[1].requests) = 2
    /\ calls[1].requests[2].outcome = "rejected"
    /\ calls[1].result = "failed"
    /\ calls[2].op = "get_business_dashboard"
    /\ Len(calls[2].requests) = 3
    /\ calls[2].requests[3].outcome = "network"
    /\ calls[2].result = "error"

\* No tool issues more than five requests (get_business_dashboard).
MaxRoundTrips == 5

\* C23: every tool invocation returns a text after a bounded number of
\* round trips, provided every request it issues is answered or fails: it
\* never issues more requests than its code lists, five at most, and an
\* invocation that has begun leads to one that has returned.
C23_Returns ==
    /\ [](\A i \in Invocations :
             /\ Len(calls[i].requests) <= Len(Plan(calls[i].op))
             /\ Len(Plan(calls[i].op)) <= MaxRoundTrips)
    /\ \A i \in Invocations : (calls[i].op # "none") ~> Returned(i)

\* get_business_dashboard has returned its report after five round trips,
\* and log_time its text after two.
C23_Witness ==
    /\ calls[1].op = "get_business_dashboard"
    /\ calls[1].result = "report"
    /\ Len(calls[1].requests) = MaxRoundTrips
    /\ calls[2].op = "log_time"
    /\ calls[2].result = "logged"
    /\ Len(calls[2].requests) = 2

\* The requests of invocation i that post a payment.
Posts(i) ==
    {k \in 1 .. Len(calls[i].requests) : calls[i].requests[k].method = "POST"}

\* Invocation i of apply_payment_to_invoice has read its invoice.
ReadInvoice(i) ==
    /\ calls[i].op = "apply_payment_to_invoice"
    /\ calls[i].got
    /\ calls[i].result # "not_found"

\* C30: apply_payment_to_invoice never records a payment larger than the
\* balance it read.  When amount > balance it returns the warning and has
\* issued no payment request; otherwise it posts one payment, for the
\* client_id of the invoice it read and applied in full to that invoice;
\* and on success the new balance it reports is balance - amount and is not
\* negative.  Every payment the store holds was posted this way.
C30_PaymentWithinBalance ==
    /\ \A i \in Invocations :
           calls[i].op = "apply_payment_to_invoice"
           => LET c == calls[i]
                  amount == c.args[2]
              IN /\ ~ReadInvoice(i) => Posts(i) = {}
                 /\ ReadInvoice(i) =>
                        /\ c.invoice.number = c.args[1]
                        /\ c.result = "warning" <=> amount > c.invoice.balance
                        /\ c.result = "warning" => Posts(i) = {}
                        /\ (amount <= c.invoice.balance /\ Returned(i))
                           => Cardinality(Posts(i)) = 1
                        /\ Posts(i) # {} =>
                               /\ amount <= c.invoice.balance
                               /\ c.payload = [client |-> c.invoice.client,
                                               amount |-> amount,
                                               invoice |-> c.invoice.number,
                                               applied |-> amount,
                                               date |-> 0]
                        /\ c.result = "applied" =>
                               /\ c.total = c.invoice.balance - amount
                               /\ c.total >= 0
    /\ \A k \in 1 .. Len(payments) :
           \E i \in Invocations :
               /\ ReadInvoice(i)
               /\ calls[i].result = "applied"
               /\ payments[k] = calls[i].payload
               /\ payments[k].amount <= calls[i].invoice.balance

\* One invocation has applied the whole balance, 2, and reports the new
\* balance 0; the other, with amount 3, has returned the warning after its
\* GET alone.
C30_Witness ==
    /\ ReadInvoice(1)
    /\ calls[1].args[2] = 2
    /\ calls[1].invoice.balance = 2
    /\ calls[1].result = "applied"
    /\ calls[1].total = 0
    /\ payments = <<calls[1].payload>>
    /\ ReadInvoice(2)
    /\ calls[2].args[2] = 3
    /\ calls[2].result = "warning"
    /\ Len(calls[2].requests) = 1

\* The number of open sessions among the first n of logs.
RECURSIVE OpenSessions(_, _)
OpenSessions(logs, n) ==
    IF n = 0 THEN 0
    ELSE OpenSessions(logs, n - 1) + (IF IsOpen(logs[n]) THEN 1 ELSE 0)

\* C24: after any sequence of start_task, stop_task and log_time on a task
\* created with an empty log, the stored log holds at most one open
\* session: start_task adds none while another is still open.
C24_AtMostOneOpen ==
    \A t \in created :
        /\ Parses(time_log[t])
        /\ OpenSessions(Parsed(time_log[t]), Len(Parsed(time_log[t]))) <= 1

\* C25: the display tools and the mutation tools agree on the running state
\* of every log the tools can store.  When get_tasks and get_task_details
\* show the log as RUNNING, start_task on it answers "already running" and
\* stop_task closes the open session; when they show it as stopped,
\* stop_task answers "not currently running".
C25_DisplayAgreesWithMutation ==
    LET shown == GetTasksTimer(last.read, clock).running
        detailed == GetTaskDetailsTimer(last.read, clock).running
    IN /\ (last.op = "start_task" /\ last.got)
          => /\ shown => last.result = "already_running"
             /\ detailed => last.result = "already_running"
       /\ (last.op = "stop_task" /\ last.got)
          => /\ shown => last.result # "not_running"
             /\ detailed => last.result # "not_running"
             /\ ~shown => last.result = "not_running"
             /\ ~detailed => last.result = "not_running"

\* C26: the four elapsed-time computations (get_tasks, get_task_details,
\* get_project_summary, get_billable_hours) give the same elapsed seconds for
\* the same stored log at the same query time, for every log of entries of
\* zero, one or two integers.  get_billable_hours lists and totals a task
\* only when its seconds are positive.
C26_SameElapsed ==
    LET text == time_log["t1"]
        seconds == GetTasksTimer(text, clock).seconds
    IN /\ (last.op \in {"get_tasks", "get_task_details", "get_project_summary"}
           /\ last.result = "report")
          => last.rows[1].seconds = seconds
       /\ (last.op = "get_billable_hours" /\ last.result = "report")
          => /\ BillableSeconds(text, clock) = seconds
             /\ last.total_seconds = IF seconds > 0 THEN seconds ELSE 0

\* The session start_task or log_time(hours = n / HoursDen) adds at now.
NewSession(op, n, now) ==
    IF op = "start_task" THEN <<now>> ELSE <<now - DurationSeconds(n), now>>

\* C27: the frame of the timer mutations.  A successful start_task or
\* log_time stores the log it read with exactly one session appended, a
\* successful stop_task the log it read with only the end added to the last
\* session: every earlier session keeps its value and its position.  No
\* field of the task other than time_log, and no other task, is written.
C27_Frame ==
    [][(last'.op \in Mutations /\ last'.result \in {"started", "stopped", "logged"})
       => LET t == last'.task
              old == IF Parses(time_log[t]) THEN Parsed(time_log[t]) ELSE <<>>
              new == Parsed(time_log'[t])
          IN /\ last'.read = time_log[t]
             /\ Parses(time_log'[t])
             /\ time_log'[t] = last'.payload
             /\ last'.op \in {"start_task", "log_time"}
                => new = Append(old, NewSession(last'.op, last'.hours, clock))
             /\ last'.op = "stop_task"
                => /\ Len(new) = Len(old)
                   /\ \A k \in 1 .. Len(old) - 1 : new[k] = old[k]
                   /\ Last(new) = Append(Last(old), clock)
             /\ \A u \in TaskIds \ {t} : time_log'[u] = time_log[u]
             /\ UNCHANGED <<created, invoice_id, rate, task_rate, clock>>]_vars

\* stop_task has closed the open last session of a log of two sessions and
\* left the first one as it was.
C27_Witness ==
    /\ last.op = "stop_task"
    /\ last.result = "stopped"
    /\ Len(Parsed(last.read)) = 2
    /\ Len(Parsed(time_log[last.task])) = 2
    /\ Parsed(time_log[last.task])[1] = Parsed(last.read)[1]
    /\ Parsed(time_log[last.task])[2] = Append(Parsed(last.read)[2], clock)

\* C28: when the stored time log does not parse, start_task and log_time
\* take it as the empty log: they send a log that holds the new session
\* alone, and it replaces the stored text on success; stop_task answers
\* "not currently running" and sends nothing.
C28_UnparsableLog ==
    (last.op \in Mutations /\ last.got /\ ~Parses(last.read))
    => /\ last.op \in {"start_task", "log_time"}
          => /\ last.put
             /\ last.payload =
                    json_dumps(<<NewSession(last.op, last.hours, clock)>>)
             /\ last.result \in {"started", "logged"}
                => time_log[last.task] = last.payload
             /\ last.result \notin {"started", "logged"}
                => time_log[last.task] = last.read
       /\ last.op = "stop_task"
          => /\ last.result = "not_running"
             /\ ~last.put
             /\ time_log[last.task] = last.read

\* start_task has read a text that is no JSON and stored the log of its own
\* session alone.
C28_Witness ==
    /\ last.op = "start_task"
    /\ last.read = <<JUNK>>
    /\ last.result = "started"
    /\ Parses(time_log[last.task])
    /\ Parsed(time_log[last.task]) = <<<<clock>>>>

\* The elapsed seconds get_tasks computes for task t at the current time.
Elapsed(t) == GetTasksTimer(time_log[t], clock).seconds

\* C29: in a run of start_task, stop_task and log_time (hours >= 0), one
\* after the other on a created task with a clock that does not go back, the
\* elapsed seconds get_tasks computes are never negative and never decrease
\* from one moment, hence from one query, to a later one.
C29_ElapsedMonotone ==
    /\ [](\A t \in created : Elapsed(t) >= 0)
    /\ [](last.op = "get_tasks" /\ last.result = "report"
            => \A k \in 1 .. Len(last.rows) :
                   last.rows[k].seconds = Elapsed(last.rows[k].task))
    /\ [][\A t \in created :
               t \in created'
               => GetTasksTimer(time_log'[t], clock').seconds >= Elapsed(t)]_vars

\* get_tasks reports 7201 seconds at time 2 for a task started at 1, still
\* running, with two hours logged at 2.
C29_Witness ==
    /\ last.op = "get_tasks"
    /\ last.result = "report"
    /\ clock = 2
    /\ Parsed(time_log["t1"]) = <<<<1>>, <<2 - 7200, 2>>>>
    /\ last.rows[1].seconds = 7201
    /\ last.rows[1].running

====
